---- MODULE Spec2Model ----
(***************************************************************************)
(* A model of the Waterfall CLO cashflow engine (src/model/*.py and the    *)
(* factories of src/factories.py, src/clo_factory.py).                     *)
(*                                                                         *)
(* Conventions of the model.                                               *)
(*  - Money is a whole number of currency units; a product with a rate is  *)
(*    truncated to whole units (the source uses 64-bit floats).            *)
(*  - Rates are whole percents per annum (12 means 0.12).                  *)
(*  - A date is a day number: day 0 is 1 January of year 0 and every year  *)
(*    has the twelve months of MonthLengths (no leap years).  Adding       *)
(*    months clamps the day of the month to the length of the target       *)
(*    month, as dateutil's relativedelta does.  A year fraction is the     *)
(*    number of days over DCF_DENOMINATOR.  Day d is a weekday when        *)
(*    d % 7 < 5; there are no bank holidays.                               *)
(*  - An exception raised by the source ends the run: pc = "aborted" and   *)
(*    error names the exception.                                           *)
(***************************************************************************)
EXTENDS Integers, Sequences, FiniteSets, TLC

VARIABLES
    pc,                 \* position inside CLO.simulate
    error,              \* "none", or the exception that ended the run
    n_steps,            \* monthly steps started so far
    simulate_until,     \* CLO.simulate_until: the monthly cursor
    next_payment_date,  \* CLO.next_payment_date
    liquidation_date,   \* CLO.liquidation_date
    in_liquidation,     \* CLO.in_liquidation
    on_payment_date,    \* the local of CLO.simulate, fixed at the top of a step
    deal,               \* the deal's fixed parameters (dates, assumptions, curve)
    assets,             \* Portfolio.assets
    tranches,           \* CLO.tranches: the debt tranches, then the equity tranche
    fees,               \* CLO.fees: senior expenses, senior mgmt, junior mgmt
    incentive_fee,      \* CLO.incentive_fee
    interest_account,   \* CLO.interest_account.balance
    principal_account,  \* CLO.principal_account.balance
    waterfall,          \* CashflowWaterfall.order, with each key's payee
    wf_run,             \* "none", "interest" or "principal": the waterfall being paid
    wf_pos,             \* index in waterfall of the next entry to pay
    wf_log,             \* the entries paid so far in the current run, with amounts
    clo,                \* CLO bookkeeping: sweeps, reinvestment, history
    probe               \* scratch state of the unit specifications (accounts, factories)

vars == <<pc, error, n_steps, simulate_until, next_payment_date, liquidation_date,
          in_liquidation, on_payment_date, deal, assets, tranches, fees,
          incentive_fee, interest_account, principal_account, waterfall,
          wf_run, wf_pos, wf_log, clo, probe>>

----------------------------------------------------------------------------
(* Bounds of the model and constants of the program. *)

\* the most debt tranche rows of a deal
MaxTranches == 2
\* the most monthly steps of CLO.simulate the model follows
MaxSteps == 9
\* the most monthly steps followed for a deal that is run into its liquidation
MaxLongSteps == 30
\* date(9999, 12, 31): "never"
FarDate == 999999
\* day_counter.DCF_DENOMINATOR
DCF_DENOMINATOR == 360

Min(a, b) == IF a <= b THEN a ELSE b
Max(a, b) == IF a >= b THEN a ELSE b

\* the days of the months of a year
MonthLengths == <<31, 28, 31, 30, 31, 30, 31, 31, 30, 31, 30, 31>>

\* the days of a year before each of its months
MonthStarts == <<0, 31, 59, 90, 120, 151, 181, 212, 243, 273, 304, 334>>

DaysInYear == MonthStarts[12] + MonthLengths[12]

\* date.year, date.month and date.day of day number d
YearOf(d) == d \div DaysInYear
MonthOf(d) ==
    CHOOSE m \in 1..12 :
        /\ MonthStarts[m] <= d % DaysInYear
        /\ d % DaysInYear < MonthStarts[m] + MonthLengths[m]
DayOf(d) == (d % DaysInYear) - MonthStarts[MonthOf(d)] + 1

\* date(year, month, day)
DateOf(year, month, day) == year * DaysInYear + MonthStarts[month] + day - 1

\* relativedelta(months=n) added to date d: the day of the month is kept
\* unless the target month is shorter, and then it is that month's last day
AddMonths(d, n) ==
    LET months == YearOf(d) * 12 + (MonthOf(d) - 1) + n
        month == (months % 12) + 1
    IN  DateOf(months \div 12, month, Min(DayOf(d), MonthLengths[month]))

RECURSIVE SumSeq(_)
SumSeq(s) == IF s = <<>> THEN 0 ELSE Head(s) + SumSeq(Tail(s))

----------------------------------------------------------------------------
(* Account: src/model/account.py *)

\* request_debit without the clamp to the balance: the account is overdrawn
RequestDebitOverdraws(balance, amount) ==
    IF amount < 0 \/ balance < 0
    THEN [debited |-> 0, balance |-> balance]
    ELSE [debited |-> amount, balance |-> balance - amount]

\* request_debit that pays a request in full or not at all
RequestDebitAllOrNothing(balance, amount) ==
    IF amount < 0 \/ balance < 0 \/ amount > balance
    THEN [debited |-> 0, balance |-> balance]
    ELSE [debited |-> amount, balance |-> balance - amount]

\* Account.request_debit: the amount debited and the balance left
RequestDebit(balance, amount) ==
    IF amount < 0 \/ balance < 0
    THEN [debited |-> 0, balance |-> balance]
    ELSE IF amount > balance
         THEN [debited |-> balance, balance |-> 0]
         ELSE [debited |-> amount, balance |-> balance - amount]

\* credit without the check of the amount's sign
CreditUnchecked(balance, amount) ==
    [ok |-> TRUE, balance |-> balance + amount, returned |-> balance + amount]

\* Account.credit: raises ValueError on a negative amount, else adds it
Credit(balance, amount) ==
    IF amount < 0
    THEN [ok |-> FALSE, balance |-> balance, returned |-> 0]
    ELSE [ok |-> TRUE, balance |-> balance + amount, returned |-> balance + amount]

----------------------------------------------------------------------------
(* InterestVehicle, ForwardRateCurve *)

\* pyxirr.year_fraction(from, to) in days: the model's yf is Days / 360
YearDays(from, to) == to - from

\* balance * year_factor * interest_rate
AccrualOf(balance, days, rate) == (balance * days * rate) \div (DCF_DENOMINATOR * 100)

\* ForwardRateCurve.get_rate: linear between the two knots, flat outside
GetRate(curve, d) ==
    IF d <= curve.d0 THEN curve.r0
    ELSE IF d >= curve.d1 THEN curve.r1
    ELSE curve.r0 + ((curve.r1 - curve.r0) * (d - curve.d0)) \div (curve.d1 - curve.d0)

\* the history with its last snapshot replaced (InterestVehicle.last_snapshot is mutable)
SetLast(history, snap) == [history EXCEPT ![Len(history)] = snap]

LastSnapshot(v) == v.history[Len(v.history)]

----------------------------------------------------------------------------
(* Tranche and EquityTranche: src/model/tranche.py, src/model/equity_tranche.py *)

\* Tranche.take_snapshot: a TrancheSnapshot with the payment fields at their defaults
TrancheSnapshot(t, as_of_date) ==
    [date |-> as_of_date,
     coupon |-> t.interest_rate,
     balance |-> t.balance,
     interest_accrued |-> t.interest_accrued,
     deferred_interest |-> t.deferred_interest,
     interest_accrued_over_period |-> t.period_accrual,
     interest_paid |-> 0,
     deferred_interest_paid |-> 0,
     deferred_interest_accrued_over_period |-> 0,
     principal_paid |-> 0,
     pct_principal |-> 0,
     pct_amortization |-> 0]

\* Tranche.__init__ (EquityTranche.__init__ passes rating 'Equity', margin 0, coupon 0)
NewTranche(cls, rating, balance, margin, initial_coupon, report_date, is_fixed_rate) ==
    LET t == [cls |-> cls,
              rating |-> rating,
              initial_balance |-> balance,
              balance |-> balance,
              margin |-> margin,
              interest_rate |-> initial_coupon,
              is_fixed_rate |-> is_fixed_rate,
              deferred_interest |-> 0,
              interest_accrued |-> 0,
              period_accrual |-> 0,
              interest_paid |-> 0,
              principal_paid |-> 0,
              last_simulation_date |-> report_date,
              clo_call_date |-> FarDate,
              history |-> <<>>]
    IN  [t EXCEPT !.history = <<TrancheSnapshot(t, report_date)>>]

\* Tranche.accrue_interest: on the balance plus the deferred interest
TrancheAccrual(t, days) == AccrualOf(t.balance + t.deferred_interest, days, t.interest_rate)

\* simulate that capitalises the accrual into the deferred interest at once
TrancheSimulateCapitalising(t, until) ==
    LET accrue_until == Min(until, t.clo_call_date)
        accrual == TrancheAccrual(t, YearDays(t.last_simulation_date, accrue_until))
        acc == [t EXCEPT !.deferred_interest = @ + accrual,
                         !.period_accrual = @ + accrual]
    IN  [acc EXCEPT !.history = Append(@, TrancheSnapshot(acc, until)),
                    !.period_accrual = 0,
                    !.last_simulation_date = accrue_until]

\* Tranche.simulate
TrancheSimulate(t, until) ==
    LET accrue_until == Min(until, t.clo_call_date)
        accrual == TrancheAccrual(t, YearDays(t.last_simulation_date, accrue_until))
        acc == [t EXCEPT !.interest_accrued = @ + accrual,
                         !.period_accrual = @ + accrual]
    IN  [acc EXCEPT !.history = Append(@, TrancheSnapshot(acc, until)),
                    !.period_accrual = 0,
                    !.last_simulation_date = accrue_until]

\* Tranche.notify_of_liquidation
\* a tranche that ignores the notification
TrancheNotifyIgnored(t, d) == t

TrancheNotify(t, d) == [t EXCEPT !.clo_call_date = d]

\* Tranche.update_coupon
TrancheUpdateCoupon(t, curve, fixing_date) ==
    IF t.is_fixed_rate THEN t
    ELSE [t EXCEPT !.interest_rate = GetRate(curve, fixing_date) + t.margin]

\* pay_interest that pays the accrued interest before the deferred interest
TranchePayInterestAccruedFirst(t, source) ==
    LET d1 == RequestDebit(source, t.interest_accrued)
        accrued_paid == d1.debited
        d2 == RequestDebit(d1.balance, t.deferred_interest)
        deferred_paid == d2.debited
        left == t.interest_accrued - accrued_paid
        snap == LastSnapshot(t)
        paid == [t EXCEPT
                   !.deferred_interest = @ - deferred_paid,
                   !.interest_paid = @ + deferred_paid + accrued_paid,
                   !.interest_accrued = left,
                   !.history = SetLast(@, [snap EXCEPT
                        !.deferred_interest_paid = @ + deferred_paid,
                        !.interest_paid = @ + deferred_paid + accrued_paid])]
        snap2 == LastSnapshot(paid)
    IN  [tranche |->
            IF left > 0
            THEN [paid EXCEPT
                    !.deferred_interest = @ + left,
                    !.interest_accrued = 0,
                    !.history = SetLast(@, [snap2 EXCEPT
                        !.deferred_interest_accrued_over_period = left])]
            ELSE paid,
         source |-> d2.balance,
         paid |-> deferred_paid + accrued_paid,
         ok |-> TRUE]

\* Tranche.pay_interest: the tranche and the source balance after the call
TranchePayInterest(t, source) ==
    LET d1 == RequestDebit(source, t.deferred_interest)
        deferred_paid == d1.debited
        d2 == RequestDebit(d1.balance, t.interest_accrued)
        accrued_paid == d2.debited
        left == t.interest_accrued - accrued_paid
        snap == LastSnapshot(t)
        paid == [t EXCEPT
                   !.deferred_interest = @ - deferred_paid,
                   !.interest_paid = @ + deferred_paid + accrued_paid,
                   !.interest_accrued = left,
                   !.history = SetLast(@, [snap EXCEPT
                        !.deferred_interest_paid = @ + deferred_paid,
                        !.interest_paid = @ + deferred_paid + accrued_paid])]
        snap2 == LastSnapshot(paid)
    IN  [tranche |->
            IF left > 0
            THEN [paid EXCEPT
                    !.deferred_interest = @ + left,
                    !.interest_accrued = 0,
                    !.history = SetLast(@, [snap2 EXCEPT
                        !.deferred_interest_accrued_over_period = left])]
            ELSE paid,
         source |-> d2.balance,
         paid |-> deferred_paid + accrued_paid,
         ok |-> TRUE]

\* amount_paid / initial_balance, in whole percents
PctPrincipal(t, amount_paid) ==
    IF t.initial_balance > 0 THEN (amount_paid * 100) \div t.initial_balance ELSE 0

\* pay_principal that redeems the whole balance whatever the source held
TranchePayPrincipalInFull(t, source) ==
    LET d == RequestDebit(source, t.balance)
        amount_paid == t.balance
        snap == LastSnapshot(t)
    IN  [tranche |-> [t EXCEPT
            !.balance = @ - amount_paid,
            !.principal_paid = @ + amount_paid,
            !.history = SetLast(@, [snap EXCEPT
                !.balance = t.balance - amount_paid,
                !.principal_paid = @ + amount_paid,
                !.pct_principal = @ + PctPrincipal(t, amount_paid),
                !.pct_amortization = PctPrincipal(t, amount_paid)])],
         source |-> d.balance,
         paid |-> amount_paid,
         ok |-> TRUE]

\* pay_principal that does not log the payment in the last snapshot
TranchePayPrincipalUnlogged(t, source) ==
    LET d == RequestDebit(source, t.balance)
        amount_paid == d.debited
    IN  [tranche |-> [t EXCEPT
            !.balance = @ - amount_paid,
            !.principal_paid = @ + amount_paid],
         source |-> d.balance,
         paid |-> amount_paid,
         ok |-> TRUE]

\* Tranche.pay_principal
TranchePayPrincipal(t, source) ==
    LET d == RequestDebit(source, t.balance)
        amount_paid == d.debited
        snap == LastSnapshot(t)
    IN  [tranche |-> [t EXCEPT
            !.balance = @ - amount_paid,
            !.principal_paid = @ + amount_paid,
            !.history = SetLast(@, [snap EXCEPT
                !.balance = t.balance - amount_paid,
                !.principal_paid = @ + amount_paid,
                !.pct_principal = @ + PctPrincipal(t, amount_paid),
                !.pct_amortization = PctPrincipal(t, amount_paid)])],
         source |-> d.balance,
         paid |-> amount_paid,
         ok |-> TRUE]

\* pay_interest of an equity tranche that debits the account and credits nothing
\* to the tranche
EquityPayInterestUncredited(t, source) ==
    LET d == RequestDebit(source, source)
    IN  [tranche |-> t,
         source |-> d.balance,
         paid |-> d.debited,
         ok |-> TRUE]

\* EquityTranche.pay_interest: debits the whole source account
EquityPayInterest(t, source) ==
    LET d == RequestDebit(source, source)
        snap == LastSnapshot(t)
    IN  [tranche |-> [t EXCEPT
            !.interest_paid = @ + d.debited,
            !.history = SetLast(@, [snap EXCEPT !.interest_paid = @ + d.debited])],
         source |-> d.balance,
         paid |-> d.debited,
         ok |-> TRUE]

\* pay_principal of an equity tranche that asks for its own balance only
EquityPayPrincipalCapped(t, source) ==
    LET d == RequestDebit(source, t.balance)
        snap == LastSnapshot(t)
    IN  [tranche |-> [t EXCEPT
            !.balance = Max(@ - d.debited, 0),
            !.history = SetLast(@, [snap EXCEPT
                !.principal_paid = @ + d.debited,
                !.balance = @ - d.debited])],
         source |-> d.balance,
         paid |-> d.debited,
         ok |-> TRUE]

\* pay_principal of an equity tranche whose balance has no floor
EquityPayPrincipalUnfloored(t, source) ==
    LET d == RequestDebit(source, source)
        snap == LastSnapshot(t)
    IN  [tranche |-> [t EXCEPT
            !.balance = @ - d.debited,
            !.history = SetLast(@, [snap EXCEPT
                !.principal_paid = @ + d.debited,
                !.balance = @ - d.debited])],
         source |-> d.balance,
         paid |-> d.debited,
         ok |-> TRUE]

\* EquityTranche.pay_principal: debits the whole source account, balance floored at 0
EquityPayPrincipal(t, source) ==
    LET d == RequestDebit(source, source)
        snap == LastSnapshot(t)
    IN  [tranche |-> [t EXCEPT
            !.balance = Max(@ - d.debited, 0),
            !.history = SetLast(@, [snap EXCEPT
                !.principal_paid = @ + d.debited,
                !.balance = @ - d.debited])],
         source |-> d.balance,
         paid |-> d.debited,
         ok |-> TRUE]

----------------------------------------------------------------------------
(* Fee and IncentiveFee: src/model/fee.py *)

\* Fee.take_snapshot
FeeSnapshot(f, as_of_date) ==
    [date |-> as_of_date,
     balance |-> f.balance,
     period_accrual |-> f.period_accrual,
     accrued |-> f.interest_accrued,
     paid |-> 0,
     rebate |-> 0]

\* Fee.__init__; rebate_pct = rebate_rate / interest_rate is kept as the two rates.
\* IncentiveFee.__init__ passes no fixed expense and no rebate, and keeps the
\* diversion rate.
NewFee(cls, name, balance, coupon, report_date, fixed_expense, rebate_rate, diversion_rate) ==
    LET f == [cls |-> cls,
              name |-> name,
              balance |-> balance,
              interest_rate |-> coupon,
              fixed_expense |-> fixed_expense,
              rebate_rate |-> rebate_rate,
              diversion_rate |-> diversion_rate,
              interest_accrued |-> 0,
              period_accrual |-> 0,
              interest_paid |-> 0,
              last_simulation_date |-> report_date,
              clo_call_date |-> FarDate,
              history |-> <<>>]
    IN  [f EXCEPT !.history = <<FeeSnapshot(f, report_date)>>]

\* Fee.accrue: interest on the balance plus the pro-rated fixed expense
FeeAccrue(f, days) ==
    LET accrual == AccrualOf(f.balance, days, f.interest_rate)
                   + (days * f.fixed_expense) \div DCF_DENOMINATOR
    IN  [f EXCEPT !.interest_accrued = @ + accrual, !.period_accrual = @ + accrual]

\* a hurdle that accrues a year on the balance the fee was built with, whatever
\* the balance has become
IncentiveAccrueOnFirstBalance(f, days) ==
    LET accrual == AccrualOf(f.history[1].balance, DCF_DENOMINATOR, f.interest_rate)
    IN  [f EXCEPT !.balance = @ + accrual, !.period_accrual = @ + accrual]

\* IncentiveFee.accrue: the hurdle accrual is added to the balance
IncentiveAccrue(f, days) ==
    LET accrual == AccrualOf(f.balance, days, f.interest_rate)
    IN  [f EXCEPT !.balance = @ + accrual, !.period_accrual = @ + accrual]

\* simulate that accrues up to its target whatever the call date
FeeSimulatePastCallDate(f, until) ==
    LET days == YearDays(f.last_simulation_date, until)
        acc == IF f.cls = "IncentiveFee" THEN IncentiveAccrue(f, days) ELSE FeeAccrue(f, days)
    IN  [acc EXCEPT !.history = Append(@, FeeSnapshot(acc, until)),
                    !.last_simulation_date = until,
                    !.period_accrual = 0]

\* Fee.simulate (inherited by IncentiveFee, whose accrue is its own)
FeeSimulate(f, until) ==
    LET accrue_until == Min(until, f.clo_call_date)
        days == YearDays(f.last_simulation_date, accrue_until)
        acc == IF f.cls = "IncentiveFee" THEN IncentiveAccrue(f, days) ELSE FeeAccrue(f, days)
    IN  [acc EXCEPT !.history = Append(@, FeeSnapshot(acc, until)),
                    !.last_simulation_date = accrue_until,
                    !.period_accrual = 0]

\* Fee.notify_of_liquidation
FeeNotify(f, d) == [f EXCEPT !.clo_call_date = d]

\* Fee.log_payment_in_history
FeeLogPayment(f, fee_paid, rebate_amount) ==
    LET snap == LastSnapshot(f)
    IN  [f EXCEPT !.history = SetLast(@, [snap EXCEPT !.paid = @ + fee_paid,
                                                       !.rebate = @ + rebate_amount])]

\* a fee that keeps the rebate out of the source account
FeePayKeepingRebate(f, source) ==
    LET d == RequestDebit(source, f.interest_accrued)
        amount_paid == d.debited
        rebate_amount == (amount_paid * f.rebate_rate) \div f.interest_rate
        actual_fee == amount_paid - rebate_amount
        g == [f EXCEPT !.interest_accrued = @ - amount_paid,
                       !.interest_paid = @ + actual_fee]
    IN  [fee |-> FeeLogPayment(g, actual_fee, rebate_amount),
         source |-> d.balance,
         paid |-> actual_fee,
         ok |-> TRUE]

\* Fee.pay: ok is FALSE when source.credit raises, which leaves the payment unlogged
FeePay(f, source) ==
    LET d == RequestDebit(source, f.interest_accrued)
        amount_paid == d.debited
        rebate_amount == (amount_paid * f.rebate_rate) \div f.interest_rate
        actual_fee == amount_paid - rebate_amount
        c == Credit(d.balance, rebate_amount)
        g == [f EXCEPT !.interest_accrued = @ - amount_paid,
                       !.interest_paid = @ + actual_fee]
    IN  [fee |-> IF c.ok THEN FeeLogPayment(g, actual_fee, rebate_amount) ELSE g,
         source |-> c.balance,
         paid |-> actual_fee,
         ok |-> c.ok]

\* an incentive fee that keeps the negative balance of a cleared hurdle
IncentivePayUnfloored(f, source) ==
    LET d == RequestDebit(source, source)
        balance == f.balance - d.debited
        payment == (Max(0 - balance, 0) * f.diversion_rate) \div 100
        c == Credit(d.balance, d.debited - payment)
        g == [f EXCEPT !.balance = balance]
    IN  [fee |-> IF c.ok THEN FeeLogPayment(g, payment, 0) ELSE g,
         source |-> c.balance, paid |-> payment, ok |-> c.ok]

\* an incentive fee that takes its share of the whole source once the hurdle is
\* cleared
IncentivePayOnWholeSource(f, source) ==
    LET d == RequestDebit(source, source)
        balance == f.balance - d.debited
        payment == IF balance < 0 THEN (d.debited * f.diversion_rate) \div 100 ELSE 0
        c == Credit(d.balance, d.debited - payment)
        g == [f EXCEPT !.balance = Max(balance, 0)]
    IN  [fee |-> IF c.ok THEN FeeLogPayment(g, payment, 0) ELSE [f EXCEPT !.balance = balance],
         source |-> c.balance, paid |-> payment, ok |-> c.ok]

\* IncentiveFee.pay
IncentivePay(f, source) ==
    LET d == RequestDebit(source, source)
        diverted_funds == d.debited
        balance == f.balance - diverted_funds
        payment == (Max(0 - balance, 0) * f.diversion_rate) \div 100
        c == Credit(d.balance, diverted_funds - payment)
        g == [f EXCEPT !.balance = balance]
    IN  [fee |-> IF c.ok
                 THEN FeeLogPayment([g EXCEPT !.balance = Max(balance, 0)], payment, 0)
                 ELSE g,
         source |-> c.balance,
         paid |-> payment,
         ok |-> c.ok]

----------------------------------------------------------------------------
(* Asset: src/model/asset.py *)

\* day_counter.add_uk_business_days, with no bank holidays
RECURSIVE add_uk_business_days(_, _)
add_uk_business_days(start, days) ==
    IF days <= 0 THEN start
    ELSE LET next == IF (start + 1) % 7 < 5 THEN start + 1
                     ELSE IF (start + 2) % 7 < 5 THEN start + 2
                     ELSE start + 3
         IN  add_uk_business_days(next, days - 1)

\* Asset.take_snapshot
AssetSnapshot(a, as_of) ==
    [date |-> as_of,
     balance |-> a.balance,
     defaulted_principal |-> a.defaulted_principal,
     scheduled_principal |-> a.scheduled_principal,
     unscheduled_principal |-> a.unscheduled_principal,
     principal_paid |-> a.principal_paid,
     interest_paid |-> a.interest_paid,
     interest_accrued |-> a.interest_accrued,
     period_accrual |-> a.period_accrual,
     recovered_principal |-> a.recovered_principal,
     interest_rate |-> a.interest_rate]

\* Asset.calc_prior_payment_date
RECURSIVE calc_prior_payment_date(_, _, _)
calc_prior_payment_date(prior, payment_interval, comparison_date) ==
    IF prior > comparison_date
    THEN calc_prior_payment_date(AddMonths(prior, 0 - payment_interval), payment_interval, comparison_date)
    ELSE prior

\* Asset.__init__, with Asset.calc_backdated_accrued_interest
NewAsset(figi, asset_kind, balance, price, spread, initial_coupon, payment_months, report_date, npd, maturity_date, cpr_lockout_end_date, cdr_lockout_end_date, cpr, cdr, recovery_rate, is_floating_rate) ==
    LET interval == payment_months
        prior == calc_prior_payment_date(npd, interval, report_date)
        a == [figi |-> figi,
              asset_kind |-> asset_kind,
              balance |-> balance,
              price |-> price,
              spread |-> spread,
              interest_rate |-> initial_coupon,
              is_floating_rate |-> is_floating_rate,
              cpr |-> cpr,
              cdr |-> cdr,
              recovery_rate |-> recovery_rate,
              maturity |-> maturity_date,
              report_date |-> report_date,
              next_payment_date |-> npd,
              settlement_date |-> FarDate,
              cpr_lockout_end_date |-> cpr_lockout_end_date,
              cdr_lockout_end_date |-> cdr_lockout_end_date,
              payment_interval |-> interval,
              last_simulation_date |-> report_date,
              interest_paid |-> 0,
              principal_paid |-> 0,
              interest_accrued |-> AccrualOf(balance, YearDays(prior, report_date), initial_coupon),
              period_accrual |-> 0,
              scheduled_principal |-> 0,
              defaulted_principal |-> 0,
              recovered_principal |-> 0,
              unscheduled_principal |-> 0,
              history |-> <<>>]
    IN  [a EXCEPT !.history = <<AssetSnapshot(a, report_date)>>]

\* the rate applying from the day the lockout ends
EffectiveRateAtLockoutEnd(rate, lockout_end_date, as_of) ==
    IF as_of >= lockout_end_date THEN rate ELSE 0

\* Asset.effective_cpr / Asset.effective_cdr
EffectiveRate(rate, lockout_end_date, as_of) ==
    IF as_of > lockout_end_date THEN rate ELSE 0

\* (1 - (1 - rate) ** year_factor) * amount, for the rates the model carries:
\* 0 (nothing goes) and 100 (everything goes in any period of positive length;
\* 0 ** 0 is 1, so nothing goes in a period of length 0)
AmountGone(rate, days, amount) ==
    IF rate = 0 \/ days <= 0 THEN 0 ELSE amount

\* simulate with simulating_interim_period never seen set
NeverReturnsEarly(interim) ==
    FALSE

\* if self.simulating_interim_period: ...; return
ReturnsEarly(interim) ==
    interim

\* the maturity branch without its self.balance = 0
BalanceLeftAtMaturity(matured, balance) ==
    balance

\* the balance after the maturity branch of Asset.simulate
BalanceAfterMaturity(matured, balance) ==
    IF matured THEN 0 ELSE balance

\* self.balance -= prepayments + defaults, with the defaults added back
RemainingBalanceLessDefaults(balance, prepayments, defaults) ==
    balance - (prepayments - defaults)

\* self.balance -= prepayments + defaults
RemainingBalance(balance, prepayments, defaults) ==
    balance - (prepayments + defaults)

\* Asset.simulate with the defaults taken on the balance before the prepayments
AssetSegmentDefaultsOnWholeBalance(a, until, curve, interim) ==
    LET accrue_until == Min(until, a.settlement_date)
        days == YearDays(a.last_simulation_date, accrue_until)
        accrual == AccrualOf(a.balance, days, a.interest_rate)
        accrued0 == a.interest_accrued + accrual
        prepayments == AmountGone(EffectiveRate(a.cpr, a.cpr_lockout_end_date, accrue_until),
                                  days, a.balance)
        defaults == AmountGone(EffectiveRate(a.cdr, a.cdr_lockout_end_date, accrue_until),
                               days, a.balance)
        balance == IF a.balance # 0 THEN a.balance ELSE 1
        recovery == (defaults * a.recovery_rate) \div 100
        accrued1 == accrued0 - (defaults * accrued0) \div balance
        prepaid_interest == (prepayments * accrued1) \div balance
        accrued2 == accrued1 - prepaid_interest
        balance1 == RemainingBalance(a.balance, prepayments, defaults)
        paying == until = a.next_payment_date
        matured == until >= a.maturity
        settled == until >= a.settlement_date
        \* on a payment date
        interest1 == a.interest_paid + prepaid_interest + (IF paying THEN accrued2 ELSE 0)
        accrued3 == IF paying THEN 0 ELSE accrued2
        rate1 == IF paying /\ a.is_floating_rate
                 THEN GetRate(curve, until) + a.spread ELSE a.interest_rate
        npd1 == IF paying THEN AddMonths(a.next_payment_date, a.payment_interval)
                ELSE a.next_payment_date
        \* on maturity
        scheduled == IF matured THEN balance1 ELSE a.scheduled_principal
        principal2 == a.principal_paid + recovery + prepayments
                      + (IF matured THEN balance1 ELSE 0)
        balance2 == BalanceAfterMaturity(matured, balance1)
        interest2 == interest1 + (IF matured THEN accrued3 ELSE 0)
        accrued4 == IF matured THEN 0 ELSE accrued3
        \* on settlement of a sale
        proceeds == IF settled THEN (a.price * balance2) \div 100 ELSE 0
        b == [a EXCEPT
                !.period_accrual = @ + accrual,
                !.interest_accrued = accrued4,
                !.interest_paid = interest2,
                !.principal_paid = principal2 + proceeds,
                !.balance = IF settled THEN 0 ELSE balance2,
                !.interest_rate = rate1,
                !.next_payment_date = npd1,
                !.maturity = IF matured THEN FarDate ELSE @,
                !.scheduled_principal = scheduled,
                !.unscheduled_principal = @ + proceeds + prepayments,
                !.defaulted_principal = @ + defaults,
                !.recovered_principal = @ + recovery,
                !.last_simulation_date = accrue_until]
    IN  IF ReturnsEarly(interim) THEN b
        ELSE [b EXCEPT !.history = Append(@, AssetSnapshot(b, until)),
                       !.unscheduled_principal = 0,
                       !.scheduled_principal = 0,
                       !.defaulted_principal = 0,
                       !.recovered_principal = 0,
                       !.period_accrual = 0]

\* The body of Asset.simulate after its while loop, for one segment.
\* interim is Asset.simulating_interim_period.
AssetSegment(a, until, curve, interim) ==
    LET accrue_until == Min(until, a.settlement_date)
        days == YearDays(a.last_simulation_date, accrue_until)
        accrual == AccrualOf(a.balance, days, a.interest_rate)
        accrued0 == a.interest_accrued + accrual
        prepayments == AmountGone(EffectiveRate(a.cpr, a.cpr_lockout_end_date, accrue_until),
                                  days, a.balance)
        defaults == AmountGone(EffectiveRate(a.cdr, a.cdr_lockout_end_date, accrue_until),
                               days, a.balance - prepayments)
        balance == IF a.balance # 0 THEN a.balance ELSE 1
        recovery == (defaults * a.recovery_rate) \div 100
        accrued1 == accrued0 - (defaults * accrued0) \div balance
        prepaid_interest == (prepayments * accrued1) \div balance
        accrued2 == accrued1 - prepaid_interest
        balance1 == RemainingBalance(a.balance, prepayments, defaults)
        paying == until = a.next_payment_date
        matured == until >= a.maturity
        settled == until >= a.settlement_date
        \* on a payment date
        interest1 == a.interest_paid + prepaid_interest + (IF paying THEN accrued2 ELSE 0)
        accrued3 == IF paying THEN 0 ELSE accrued2
        rate1 == IF paying /\ a.is_floating_rate
                 THEN GetRate(curve, until) + a.spread ELSE a.interest_rate
        npd1 == IF paying THEN AddMonths(a.next_payment_date, a.payment_interval)
                ELSE a.next_payment_date
        \* on maturity
        scheduled == IF matured THEN balance1 ELSE a.scheduled_principal
        principal2 == a.principal_paid + recovery + prepayments
                      + (IF matured THEN balance1 ELSE 0)
        balance2 == BalanceAfterMaturity(matured, balance1)
        interest2 == interest1 + (IF matured THEN accrued3 ELSE 0)
        accrued4 == IF matured THEN 0 ELSE accrued3
        \* on settlement of a sale
        proceeds == IF settled THEN (a.price * balance2) \div 100 ELSE 0
        b == [a EXCEPT
                !.period_accrual = @ + accrual,
                !.interest_accrued = accrued4,
                !.interest_paid = interest2,
                !.principal_paid = principal2 + proceeds,
                !.balance = IF settled THEN 0 ELSE balance2,
                !.interest_rate = rate1,
                !.next_payment_date = npd1,
                !.maturity = IF matured THEN FarDate ELSE @,
                !.scheduled_principal = scheduled,
                !.unscheduled_principal = @ + proceeds + prepayments,
                !.defaulted_principal = @ + defaults,
                !.recovered_principal = @ + recovery,
                !.last_simulation_date = accrue_until]
    IN  IF ReturnsEarly(interim) THEN b
        ELSE [b EXCEPT !.history = Append(@, AssetSnapshot(b, until)),
                       !.unscheduled_principal = 0,
                       !.scheduled_principal = 0,
                       !.defaulted_principal = 0,
                       !.recovered_principal = 0,
                       !.period_accrual = 0]

\* Asset.simulate: every payment date and the maturity before the target is simulated
\* first, as an interim segment
RECURSIVE AssetSimulate(_, _, _)
AssetSimulate(a, until, curve) ==
    IF until > a.next_payment_date \/ until > a.maturity
    THEN LET interim_date == IF a.next_payment_date <= a.maturity
                             THEN a.next_payment_date ELSE a.maturity
         IN  AssetSimulate(AssetSegment(a, interim_date, curve, TRUE), until, curve)
    ELSE AssetSegment(a, until, curve, FALSE)

\* the interim dates the while loop of Asset.simulate visits on the way to until
RECURSIVE InterimDates(_, _, _)
InterimDates(a, until, curve) ==
    IF until > a.next_payment_date \/ until > a.maturity
    THEN LET interim_date == IF a.next_payment_date <= a.maturity
                             THEN a.next_payment_date ELSE a.maturity
         IN  <<interim_date>>
                \o InterimDates(AssetSegment(a, interim_date, curve, TRUE), until, curve)
    ELSE <<>>

\* liquidate that counts the business days from the settlement date already set
AssetLiquidateFromSettlement(a, accrual_date) ==
    LET start == IF a.settlement_date < FarDate THEN a.settlement_date
                 ELSE accrual_date
    IN  [a EXCEPT !.settlement_date =
            IF a.asset_kind = "loan" THEN add_uk_business_days(start, 10)
            ELSE add_uk_business_days(start, 2)]

\* liquidate that also sells the balance on the spot
AssetLiquidateSellingNow(a, accrual_date) ==
    [a EXCEPT !.settlement_date =
                 IF a.asset_kind = "loan" THEN add_uk_business_days(accrual_date, 10)
                 ELSE add_uk_business_days(accrual_date, 2),
              !.principal_paid = @ + (a.price * a.balance) \div 100,
              !.balance = 0]

\* Asset.liquidate raises ValueError for an asset that is neither Loan nor Bond
InvalidAssetKind(a) ==
    a.asset_kind \notin {"loan", "bond"}

\* Asset.liquidate; nothing is written when it raises
AssetLiquidate(a, accrual_date) ==
    [a EXCEPT !.settlement_date =
        IF a.asset_kind = "loan" THEN add_uk_business_days(accrual_date, 10)
        ELSE IF a.asset_kind = "bond" THEN add_uk_business_days(accrual_date, 2)
        ELSE @]

----------------------------------------------------------------------------
(* Portfolio: src/model/portfolio.py *)

\* Portfolio.simulate
PortfolioSimulate(as, until, curve) ==
    [i \in 1..Len(as) |-> AssetSimulate(as[i], until, curve)]

\* LiquidationType
LiquidationTypes == {"market", "nav90", "override"}

\* Portfolio.liquidate: Asset.liquidate has no parameter for the liquidation type
\* and keeps nothing of it
PortfolioLiquidate(as, accrual_date, liquidation_type) ==
    [i \in 1..Len(as) |-> AssetLiquidate(as[i], accrual_date)]

\* Portfolio.total_asset_balance
TotalAssetBalance(as) == SumSeq([i \in 1..Len(as) |-> as[i].balance])

\* Portfolio.total_interest_accrued
TotalInterestAccrued(as) == SumSeq([i \in 1..Len(as) |-> as[i].interest_accrued])

\* sum(x * (asset.balance / total)), 0 on ZeroDivisionError
WeightedAverage(as, xs) ==
    LET total == TotalAssetBalance(as)
    IN  IF total = 0 THEN 0
        ELSE SumSeq([i \in 1..Len(as) |-> xs[i] * as[i].balance]) \div total

\* Portfolio.weighted_average_price / _coupon / _spread
WeightedAveragePrice(as) == WeightedAverage(as, [i \in 1..Len(as) |-> as[i].price])
WeightedAverageCoupon(as) ==
    WeightedAverage(as, [i \in 1..Len(as) |-> as[i].interest_rate])
WeightedAverageSpread(as) == WeightedAverage(as, [i \in 1..Len(as) |-> as[i].spread])

\* int(Portfolio.weighted_average_life * 12): whole months from the report date
WeightedAverageLifeMonths(as, report_date) ==
    LET total == TotalAssetBalance(as)
    IN  IF total = 0 THEN 0
        ELSE (SumSeq([i \in 1..Len(as) |->
                 YearDays(report_date, as[i].maturity) * as[i].balance]) * 12)
             \div (total * DCF_DENOMINATOR)

\* Portfolio.sweep with the swept amounts left on the assets
RECURSIVE PortfolioSweepKeepingPaid(_, _, _, _, _)
PortfolioSweepKeepingPaid(as, i, destination, swept, interest) ==
    IF i > Len(as)
    THEN [assets |-> as, destination |-> destination, swept |-> swept, ok |-> TRUE]
    ELSE LET amount == IF interest THEN as[i].interest_paid ELSE as[i].principal_paid
             c == Credit(destination, amount)
         IN  IF ~c.ok
             THEN [assets |-> as, destination |-> destination, swept |-> swept, ok |-> FALSE]
             ELSE PortfolioSweepKeepingPaid(as, i + 1, c.balance, swept + amount, interest)

\* Portfolio.sweep with Asset.sweep_interest / Asset.sweep_principal: asset by
\* asset, the paid amount is credited to the destination and zeroed; a credit
\* that raises (ok = FALSE) leaves the later assets unswept
RECURSIVE PortfolioSweep(_, _, _, _, _)
PortfolioSweep(as, i, destination, swept, interest) ==
    IF i > Len(as)
    THEN [assets |-> as, destination |-> destination, swept |-> swept, ok |-> TRUE]
    ELSE LET amount == IF interest THEN as[i].interest_paid ELSE as[i].principal_paid
             c == Credit(destination, amount)
         IN  IF ~c.ok
             THEN [assets |-> as, destination |-> destination, swept |-> swept, ok |-> FALSE]
             ELSE PortfolioSweep(
                     [as EXCEPT ![i] = IF interest THEN [@ EXCEPT !.interest_paid = 0]
                                       ELSE [@ EXCEPT !.principal_paid = 0]],
                     i + 1, c.balance, swept + amount, interest)

\* Portfolio.sweep_interest
PortfolioSweepInterest(as, destination) == PortfolioSweep(as, 1, destination, 0, TRUE)

\* Portfolio.sweep_principal
PortfolioSweepPrincipal(as, destination) == PortfolioSweep(as, 1, destination, 0, FALSE)

----------------------------------------------------------------------------
(* The factories: src/factories.py, src/clo_factory.py *)

\* Python's order of the rating strings: 'A' < 'AA' < 'AAA' < 'B' < 'BB' < 'BBB'
AlphabeticalRank(rating) ==
    CASE rating = "A" -> 1 [] rating = "AA" -> 2 [] rating = "AAA" -> 3
      [] rating = "B" -> 4 [] rating = "BB" -> 5 [] rating = "BBB" -> 6
      [] OTHER -> 7

\* sort_order.index(rating) of CLOFactory.build_tranches (src/clo_factory.py)
SortOrderIndex(rating) ==
    CASE rating = "AAA" -> 0 [] rating = "AA" -> 1 [] rating = "A" -> 2
      [] rating = "BBB" -> 3 [] rating = "BB" -> 4 [] rating = "B" -> 5
      [] OTHER -> 6

\* x inserted into the sorted sequence of keyed items s, after every item whose
\* key is <= its own
RECURSIVE InsertSorted(_, _)
InsertSorted(s, x) ==
    IF s = <<>> THEN <<x>>
    ELSE IF Head(s).key <= x.key THEN <<Head(s)>> \o InsertSorted(Tail(s), x)
    ELSE <<x>> \o s

RECURSIVE SortKeyed(_)
SortKeyed(s) ==
    IF s = <<>> THEN <<>>
    ELSE InsertSorted(SortKeyed(SubSeq(s, 1, Len(s) - 1)), s[Len(s)])

\* sorted(s, key=...): keys[i] is the key of s[i]; Python's sort is stable
Sorted(s, keys) ==
    LET keyed == SortKeyed([i \in 1..Len(s) |-> [key |-> keys[i], item |-> s[i]]])
    IN  [i \in 1..Len(s) |-> keyed[i].item]

\* key=lambda inv: inv.rating of TrancheFactory.build
TrancheRatingKey(t) == AlphabeticalRank(t.rating)

\* The loop of TrancheFactory.build over the rows: the debt tranches in row order
\* (rows with no balance are skipped)
RECURSIVE DebtTranchesOf(_, _)
DebtTranchesOf(rows, report_date) ==
    IF rows = <<>> THEN <<>>
    ELSE LET r == Head(rows)
             is_equity == r.tranche_type = "jun_sub"
             is_fixed == r.tranche_type = "fix"
         IN  (IF r.cur_balance <= 0 \/ is_equity THEN <<>>
              ELSE <<NewTranche("Tranche", r.tranche, r.cur_balance,
                                IF is_fixed THEN 0 ELSE r.margin,
                                r.coupon, report_date, is_fixed)>>)
             \o DebtTranchesOf(Tail(rows), report_date)

\* The loop of TrancheFactory.build over the rows: all equity rows folded into one
RECURSIVE EquityBalanceOf(_)
EquityBalanceOf(rows) ==
    IF rows = <<>> THEN 0
    ELSE (IF Head(rows).cur_balance > 0 /\ Head(rows).tranche_type = "jun_sub"
          THEN Head(rows).cur_balance ELSE 0) + EquityBalanceOf(Tail(rows))

\* TrancheFactory.build: the debt tranches sorted by rating, and the equity tranche
TrancheFactoryBuild(rows, report_date) ==
    [debt_tranches |->
        LET debt_tranches == DebtTranchesOf(rows, report_date)
        IN  Sorted(debt_tranches,
                   [i \in 1..Len(debt_tranches) |-> TrancheRatingKey(debt_tranches[i])]),
     equity_tranche |-> NewTranche("EquityTranche", "Equity", EquityBalanceOf(rows),
                                   0, 0, report_date, FALSE)]

\* payment_map[key] = payee: a key already in the dict keeps its place
DictPut(d, key, payee) ==
    IF \E i \in 1..Len(d) : d[i].key = key
    THEN [i \in 1..Len(d) |-> IF d[i].key = key THEN [key |-> key, payee |-> payee] ELSE d[i]]
    ELSE Append(d, [key |-> key, payee |-> payee])

DictHas(d, name) == \E i \in 1..Len(d) : d[i].key = [name |-> name, suffix |-> -1]

\* The loop of WaterfallFactory.build over the debt tranches: a rating already in
\* the map gets the running count of duplicates appended to its key
RECURSIVE PutTranches(_, _, _, _)
PutTranches(d, debt, i, duplicates) ==
    IF i > Len(debt) THEN d
    ELSE IF DictHas(d, debt[i].rating)
         THEN PutTranches(DictPut(d, [name |-> debt[i].rating, suffix |-> duplicates],
                                  [kind |-> "tranche", idx |-> i]),
                          debt, i + 1, duplicates + 1)
         ELSE PutTranches(DictPut(d, [name |-> debt[i].rating, suffix |-> -1],
                                  [kind |-> "tranche", idx |-> i]),
                          debt, i + 1, duplicates)

FeeKey(name) == [name |-> name, suffix |-> -1]

\* a payment map with the junior management fee ahead of the debt tranches
WaterfallFactoryBuildJuniorFeeFirst(debt) ==
    LET d0 == DictPut(DictPut(<<>>, FeeKey("Senior Expenses Fee"), [kind |-> "fee", idx |-> 1]),
                      FeeKey("Senior Mgmt Fee"), [kind |-> "fee", idx |-> 2])
        d1 == DictPut(d0, FeeKey("Junior Mgmt Fee"), [kind |-> "fee", idx |-> 3])
        d2 == PutTranches(d1, debt, 1, 0)
        d3 == DictPut(d2, FeeKey("Incentive Fee"), [kind |-> "incentive", idx |-> 1])
    IN  DictPut(d3, FeeKey("Equity"), [kind |-> "equity", idx |-> Len(debt) + 1])

\* WaterfallFactory.build: the keys of the payment map in insertion order, each with
\* its payee (the fees by their index in CLO.fees, the tranches by their index in
\* CLO.tranches, where the equity tranche is last)
WaterfallFactoryBuild(debt) ==
    LET d0 == DictPut(DictPut(<<>>, FeeKey("Senior Expenses Fee"), [kind |-> "fee", idx |-> 1]),
                      FeeKey("Senior Mgmt Fee"), [kind |-> "fee", idx |-> 2])
        d1 == PutTranches(d0, debt, 1, 0)
        d2 == DictPut(d1, FeeKey("Junior Mgmt Fee"), [kind |-> "fee", idx |-> 3])
        d3 == DictPut(d2, FeeKey("Incentive Fee"), [kind |-> "incentive", idx |-> 1])
    IN  DictPut(d3, FeeKey("Equity"), [kind |-> "equity", idx |-> Len(debt) + 1])

\* FeeFactory.build: senior expenses (with its fixed expense), senior and junior
\* management fees (the junior with the rebate), balances set later by the CLO
FeeFactoryBuild(fc, report_date) ==
    <<NewFee("Fee", "Senior Expenses Fee", 0, fc.expenses_rate, report_date,
             fc.expenses_fixed, 0, 0),
      NewFee("Fee", "Senior Mgmt Fee", 0, fc.senior_rate, report_date, 0, 0, 0),
      NewFee("Fee", "Junior Mgmt Fee", 0, fc.junior_rate, report_date, 0, fc.fee_rebate, 0)>>

\* FeeFactory.build: the incentive fee
IncentiveFeeBuild(fc, report_date) ==
    NewFee("IncentiveFee", "Incentive Fee", fc.irr_balance, fc.irr_threshold,
           report_date, 0, 0, fc.excess_pct)

----------------------------------------------------------------------------
(* CLO: src/model/collateralised_loan_obligation.py *)

DebtTranches(ts) == SubSeq(ts, 1, Len(ts) - 1)
EquityIndex(ts) == Len(ts)

\* CLO.total_debt
TotalDebt(ts) == SumSeq([i \in 1..Len(ts) - 1 |-> ts[i].balance])

\* CLO.aggregate_collateral_balance
AggregateCollateralBalance(as, principal) == TotalAssetBalance(as) + principal

\* CLO.continue_simulating
ContinueSimulating ==
    \/ AggregateCollateralBalance(assets, principal_account) > 0
    \/ (in_liquidation /\ simulate_until <= liquidation_date)
    \/ TotalInterestAccrued(assets) > 0

\* a reinvestment period that was over before the report date
InReinvestmentPeriodBeforeReport == simulate_until < deal.report_date

\* CLO.in_reinvestment_period
InReinvestmentPeriod == simulate_until <= deal.reinvestment_end_date

\* day_counter.safely_set_day: the day of the month becomes day, or the last
\* day of the month (last_day_of_month) when the month has no such day
SafelySetDay(d, day) ==
    DateOf(YearOf(d), MonthOf(d), Min(day, MonthLengths[MonthOf(d)]))

\* the loop of CLO.calc_first_simulation_date
RECURSIVE MonthDelta(_, _, _)
MonthDelta(report_date, npd, month_delta) ==
    IF report_date <= AddMonths(npd, month_delta)
    THEN MonthDelta(report_date, npd, month_delta - 1)
    ELSE month_delta

\* the guard that lets through a report date on the next payment date
ReportDateNotAfter(report_date, npd) == report_date <= npd

\* the guard of CLO.calc_first_simulation_date: it raises Exception unless the
\* report date is before the next payment date
ReportDateValid(report_date, npd) == report_date < npd

\* CLO.calc_first_simulation_date: the first cursor
FirstSimulationDate(report_date, npd) ==
    AddMonths(npd, MonthDelta(report_date, npd, 0) + 1)

\* a liquidation date without the two years after the reinvestment period
InitialLiquidationDateAtPeriodEnd(report_date, reinvestment_end_date, as) ==
    IF report_date <= reinvestment_end_date
    THEN reinvestment_end_date
    ELSE Min(AddMonths(report_date, 18),
             AddMonths(report_date, WeightedAverageLifeMonths(as, report_date) - 18))

\* the liquidation date set by CLO.__init__
InitialLiquidationDate(report_date, reinvestment_end_date, as) ==
    IF report_date <= reinvestment_end_date
    THEN AddMonths(reinvestment_end_date, 24)
    ELSE Min(AddMonths(report_date, 18),
             AddMonths(report_date, WeightedAverageLifeMonths(as, report_date) - 18))

\* CLO.take_snapshot: the fields the model follows
CLOSnapshot ==
    [date |-> simulate_until,
     interest_swept |-> clo.interest_swept,
     principal_swept |-> clo.principal_swept,
     principal_reinvested |-> clo.principal_reinvested,
     interest_account_balance |-> interest_account,
     principal_account_balance |-> principal_account,
     total_debt |-> TotalDebt(tranches),
     total_asset_par |-> TotalAssetBalance(assets)]

\* PortfolioFactory.build_asset for one collateral row
BuildAsset(row, cfg) ==
    NewAsset(row.figi, row.inv_type, row.face_value, row.mark_value, row.spread,
             row.gross_coupon, row.pay_months, cfg.report_date, row.next_pay_date,
             row.maturity_date, cfg.cpr_lockout_end_date, cfg.cdr_lockout_end_date,
             cfg.cpr, cfg.cdr, cfg.recovery_rate, row.is_floating_rate)

\* CLO.reinvest_using_wavgs: the asset bought with cash (price > 0)
ReinvestmentAsset(cash, price, current_date, npd) ==
    NewAsset("Reinvestment Asset", "loan", (cash * 100) \div price, price,
             WeightedAverageSpread(assets), WeightedAverageCoupon(assets),
             deal.payment_months, current_date, npd,
             AddMonths(current_date, deal.reinvestment_maturity_months),
             assets[1].cpr_lockout_end_date, assets[1].cdr_lockout_end_date,
             deal.cpr, deal.cdr, deal.recovery_rate, TRUE)

Abort(exception) ==
    /\ pc' = "aborted"
    /\ error' = exception

clockVars == <<simulate_until, next_payment_date, liquidation_date, in_liquidation,
               on_payment_date>>
payeeVars == <<tranches, fees, incentive_fee>>
accountVars == <<interest_account, principal_account>>
runVars == <<wf_run, wf_pos, wf_log>>
fixedVars == <<deal, waterfall, probe>>

\* the most monthly steps the model follows for the deal: MaxLongSteps for the
\* deals run into their liquidation (LongDeals: inside the reinvestment period at
\* the report date, lockouts that never end), MaxSteps for the others
StepCap == IF deal.report_date <= deal.reinvestment_end_date /\ deal.cpr_lockout_end_date = FarDate
           THEN MaxLongSteps ELSE MaxSteps

\* The top of the loop of CLO.simulate: leave when continue_simulating is false,
\* else fix on_payment_date and go to the liquidation trigger or past it
BeginStep ==
    /\ pc = "loop"
    /\ IF ~ContinueSimulating
       THEN /\ pc' = "done"
            /\ UNCHANGED <<n_steps, on_payment_date>>
       ELSE IF n_steps >= StepCap
       THEN /\ pc' = "capped"
            /\ UNCHANGED <<n_steps, on_payment_date>>
       ELSE /\ n_steps' = n_steps + 1
            /\ on_payment_date' = (simulate_until = next_payment_date)
            /\ pc' = IF simulate_until >= liquidation_date /\ ~in_liquidation
                     THEN "liquidate" ELSE "portfolio"
    /\ UNCHANGED <<error, simulate_until, next_payment_date, liquidation_date,
                   in_liquidation, assets, payeeVars, accountVars, runVars, clo, fixedVars>>

\* CLO.liquidate
CLOLiquidate(accrual_date, redemption_date, liquidation_type) ==
    /\ in_liquidation' = TRUE
    /\ liquidation_date' = redemption_date
    /\ assets' = PortfolioLiquidate(assets, accrual_date, liquidation_type)
    /\ tranches' = [i \in 1..Len(tranches) |-> TrancheNotify(tranches[i], redemption_date)]
    /\ fees' = [i \in 1..Len(fees) |-> FeeNotify(fees[i], redemption_date)]
    /\ incentive_fee' = FeeNotify(incentive_fee, redemption_date)

\* CLO.liquidate, called with accrual date cursor + 14 days and redemption date
\* cursor + 1 month
Liquidate ==
    /\ pc = "liquidate"
    /\ CLOLiquidate(simulate_until + 14, AddMonths(simulate_until, 1),
                    deal.liquidation_type)
    /\ pc' = "portfolio"
    /\ UNCHANGED <<error, n_steps, simulate_until, next_payment_date, on_payment_date,
                   accountVars, runVars, clo, fixedVars>>

\* self.portfolio.simulate(self.simulate_until)
SimulatePortfolio ==
    /\ pc = "portfolio"
    /\ assets' = PortfolioSimulate(assets, simulate_until, deal.curve)
    /\ pc' = "sweep"
    /\ UNCHANGED <<error, n_steps, clockVars, payeeVars, accountVars, runVars, clo, fixedVars>>

\* the sweeps of interest and principal into the two accounts
Sweep ==
    /\ pc = "sweep"
    /\ LET si == PortfolioSweepInterest(assets, interest_account)
           sp == PortfolioSweepPrincipal(si.assets, principal_account)
       IN  IF ~si.ok
           THEN /\ Abort("ValueError")
                /\ assets' = si.assets
                /\ interest_account' = si.destination
                /\ UNCHANGED <<principal_account, clo>>
           ELSE /\ interest_account' = si.destination
                /\ principal_account' = sp.destination
                /\ assets' = sp.assets
                /\ IF sp.ok
                   THEN /\ pc' = "fees"
                        /\ clo' = [clo EXCEPT !.interest_swept = si.swept,
                                              !.principal_swept = sp.swept]
                        /\ UNCHANGED error
                   ELSE /\ Abort("ValueError")
                        /\ clo' = [clo EXCEPT !.interest_swept = si.swept]
    /\ UNCHANGED <<n_steps, clockVars, payeeVars, runVars, fixedVars>>

\* fee.simulate for every fee, then the incentive fee
SimulateFees ==
    /\ pc = "fees"
    /\ fees' = [i \in 1..Len(fees) |-> FeeSimulate(fees[i], simulate_until)]
    /\ incentive_fee' = FeeSimulate(incentive_fee, simulate_until)
    /\ pc' = "tranches"
    /\ UNCHANGED <<error, n_steps, clockVars, assets, tranches, accountVars, runVars,
                   clo, fixedVars>>

\* a step that takes its snapshot right after the tranche accrual
SimulateTranchesThenSnapshot ==
    /\ pc = "tranches"
    /\ tranches' = [i \in 1..Len(tranches) |-> TrancheSimulate(tranches[i], simulate_until)]
    /\ pc' = "snapshot"
    /\ UNCHANGED <<error, n_steps, clockVars, assets, fees, incentive_fee, accountVars,
                   runVars, clo, fixedVars>>

\* tranche.simulate for every tranche
SimulateTranches ==
    /\ pc = "tranches"
    /\ tranches' = [i \in 1..Len(tranches) |-> TrancheSimulate(tranches[i], simulate_until)]
    /\ pc' = "reinvest"
    /\ UNCHANGED <<error, n_steps, clockVars, assets, fees, incentive_fee, accountVars,
                   runVars, clo, fixedVars>>

\* principal_reinvested = 0, then CLO.reinvest inside the reinvestment period
Reinvest ==
    /\ pc = "reinvest"
    /\ LET after == IF on_payment_date THEN "fee_balances" ELSE "snapshot"
           d == RequestDebit(principal_account, principal_account)
           price == Min(WeightedAveragePrice(assets), 100)
           npd == IF simulate_until = next_payment_date
                  THEN AddMonths(next_payment_date, deal.payment_months)
                  ELSE next_payment_date
       IN  IF ~InReinvestmentPeriod \/ principal_account <= 0
           THEN /\ clo' = [clo EXCEPT !.principal_reinvested = 0]
                /\ pc' = after
                /\ UNCHANGED <<error, assets, principal_account>>
           ELSE IF price = 0
           THEN /\ Abort("ZeroDivisionError")
                /\ principal_account' = d.balance
                /\ clo' = [clo EXCEPT !.principal_reinvested = 0]
                /\ UNCHANGED assets
           ELSE /\ principal_account' = d.balance
                /\ assets' = Append(assets,
                       ReinvestmentAsset(d.debited, price, simulate_until, npd))
                /\ clo' = [clo EXCEPT !.principal_reinvested = d.debited,
                                      !.num_reinvestment_assets = @ + 1]
                /\ pc' = after
                /\ UNCHANGED error
    /\ UNCHANGED <<n_steps, clockVars, payeeVars, interest_account, runVars, fixedVars>>

\* One call self.waterfall[item](source, attribute_source) of CashflowWaterfall.pay:
\* run is the payment method the waterfall was built with ("interest" for
\* pay_interest, "principal" for pay_principal; the fees' method is pay in both)
PayItem(entry, run, source, ts, fs, inc) ==
    LET payee == entry.payee
    IN  CASE payee.kind = "fee" ->
               LET r == FeePay(fs[payee.idx], source)
               IN  [tranches |-> ts, fees |-> [fs EXCEPT ![payee.idx] = r.fee],
                    incentive_fee |-> inc, source |-> r.source, paid |-> r.paid, ok |-> r.ok]
          [] payee.kind = "incentive" ->
               LET r == IncentivePay(inc, source)
               IN  [tranches |-> ts, fees |-> fs, incentive_fee |-> r.fee,
                    source |-> r.source, paid |-> r.paid, ok |-> r.ok]
          [] payee.kind = "tranche" ->
               LET r == IF run = "interest" THEN TranchePayInterest(ts[payee.idx], source)
                        ELSE TranchePayPrincipal(ts[payee.idx], source)
               IN  [tranches |-> [ts EXCEPT ![payee.idx] = r.tranche], fees |-> fs,
                    incentive_fee |-> inc, source |-> r.source, paid |-> r.paid, ok |-> r.ok]
          [] OTHER ->
               LET r == IF run = "interest" THEN EquityPayInterest(ts[payee.idx], source)
                        ELSE EquityPayPrincipal(ts[payee.idx], source)
               IN  [tranches |-> [ts EXCEPT ![payee.idx] = r.tranche], fees |-> fs,
                    incentive_fee |-> inc, source |-> r.source, paid |-> r.paid, ok |-> r.ok]

\* On a payment date: every fee's balance is set to the aggregate collateral
\* balance, then the interest waterfall starts
RefreshFeeBalances ==
    /\ pc = "fee_balances"
    /\ fees' = [i \in 1..Len(fees) |->
                  [fees[i] EXCEPT !.balance =
                      AggregateCollateralBalance(assets, principal_account)]]
    /\ pc' = "waterfall"
    /\ wf_run' = "interest"
    /\ wf_pos' = 1
    /\ wf_log' = <<>>
    /\ UNCHANGED <<error, n_steps, clockVars, assets, tranches, incentive_fee,
                   accountVars, clo, fixedVars>>

\* One iteration of the loop of CashflowWaterfall.pay
PayEntry ==
    /\ pc = "waterfall"
    /\ wf_pos <= Len(waterfall)
    /\ LET source == IF wf_run = "interest" THEN interest_account ELSE principal_account
           r == PayItem(waterfall[wf_pos], wf_run, source, tranches, fees, incentive_fee)
       IN  /\ tranches' = r.tranches
           /\ fees' = r.fees
           /\ incentive_fee' = r.incentive_fee
           /\ IF wf_run = "interest"
              THEN interest_account' = r.source /\ UNCHANGED principal_account
              ELSE principal_account' = r.source /\ UNCHANGED interest_account
           /\ wf_log' = Append(wf_log, [key |-> waterfall[wf_pos].key,
                                        payee |-> waterfall[wf_pos].payee,
                                        paid |-> r.paid,
                                        source_before |-> source,
                                        source_after |-> r.source])
           /\ IF r.ok
              THEN /\ wf_pos' = wf_pos + 1
                   /\ UNCHANGED <<pc, error>>
              ELSE /\ Abort("ValueError")
                   /\ UNCHANGED wf_pos
    /\ UNCHANGED <<n_steps, clockVars, assets, wf_run, clo, fixedVars>>

\* The interest waterfall has paid its last entry: the principal waterfall starts
StartPrincipalWaterfall ==
    /\ pc = "waterfall"
    /\ wf_run = "interest"
    /\ wf_pos > Len(waterfall)
    /\ wf_run' = "principal"
    /\ wf_pos' = 1
    /\ wf_log' = <<>>
    /\ UNCHANGED <<pc, error, n_steps, clockVars, assets, payeeVars, accountVars,
                   clo, fixedVars>>

\* The principal waterfall has paid its last entry
FinishWaterfalls ==
    /\ pc = "waterfall"
    /\ wf_run = "principal"
    /\ wf_pos > Len(waterfall)
    /\ pc' = "coupons"
    /\ wf_run' = "none"
    /\ UNCHANGED <<error, n_steps, clockVars, assets, payeeVars, accountVars,
                   wf_pos, wf_log, clo, fixedVars>>

\* Coupons are fixed for the next period and the next payment date is bumped
UpdateCoupons ==
    /\ pc = "coupons"
    /\ tranches' = [i \in 1..Len(tranches) |->
                      IF i = EquityIndex(tranches) THEN tranches[i]
                      ELSE TrancheUpdateCoupon(tranches[i], deal.curve,
                                               AddMonths(simulate_until, 1))]
    /\ next_payment_date' = AddMonths(next_payment_date, deal.payment_months)
    /\ pc' = "snapshot"
    /\ UNCHANGED <<error, n_steps, simulate_until, liquidation_date, in_liquidation,
                   on_payment_date, assets, fees, incentive_fee, accountVars, runVars,
                   clo, fixedVars>>

\* CLO.take_snapshot (its nav divides by the equity tranche's balance), then the
\* cursor moves on by one month
TakeSnapshot ==
    /\ pc = "snapshot"
    /\ IF tranches[EquityIndex(tranches)].balance = 0
       THEN /\ Abort("ZeroDivisionError")
            /\ UNCHANGED <<clo, simulate_until>>
       ELSE /\ clo' = [clo EXCEPT !.history = Append(@, CLOSnapshot),
                                  !.last_simulation_date = simulate_until]
            /\ simulate_until' = SafelySetDay(AddMonths(simulate_until, 1), deal.payment_day)
            /\ pc' = "loop"
            /\ UNCHANGED error
    /\ UNCHANGED <<n_steps, next_payment_date, liquidation_date, in_liquidation,
                   on_payment_date, assets, payeeVars, accountVars, runVars, fixedVars>>

----------------------------------------------------------------------------
(* The deals the model runs.  The report date is day 1000, 28 September of *)
(* year 2; day 1030 is 28 October, 1063 is 30 November and 1075 is        *)
(* 12 December.                                                            *)

DebtRows ==
    {[tranche |-> "A", tranche_type |-> "float", cur_balance |-> 1200,
      coupon |-> 6, margin |-> 4],
     [tranche |-> "AAA", tranche_type |-> "fix", cur_balance |-> 2400,
      coupon |-> 3, margin |-> 0]}

EquityRow(balance) ==
    [tranche |-> "Sub", tranche_type |-> "jun_sub", cur_balance |-> balance,
     coupon |-> 0, margin |-> 0]

\* every sequence of 1 to MaxTranches debt rows
DebtRowSeqs == UNION {[1..n -> DebtRows] : n \in 1..MaxTranches}

CollateralRow(figi, kind, face, mark, coupon, spread, months, npd, maturity, floating) ==
    [figi |-> figi, inv_type |-> kind, face_value |-> face, mark_value |-> mark,
     gross_coupon |-> coupon, spread |-> spread, pay_months |-> months,
     next_pay_date |-> npd, maturity_date |-> maturity, is_floating_rate |-> floating]

\* one loan paying on the deal's dates and maturing after five months; a loan and
\* a bond paying between the monthly steps; one long loan that outlives the deal;
\* two loans paying on the 30th of the month, one maturing in the seventh month
\* and one just before the first payment date
Collaterals ==
    {[next_payment_date |-> 1030,
      rows |-> <<CollateralRow("L1", "loan", 3600, 100, 12, 2, 3, 1030, 1150, TRUE)>>],
     [next_payment_date |-> 1075,
      rows |-> <<CollateralRow("L2", "loan", 2400, 95, 12, 2, 3, 1045, 1100, TRUE),
                 CollateralRow("B1", "bond", 1200, 60, 6, 0, 6, 1050, 1135, FALSE)>>],
     [next_payment_date |-> 1075,
      rows |-> <<CollateralRow("L3", "loan", 3600, 90, 12, 2, 3, 1075, 1630, TRUE)>>],
     [next_payment_date |-> 1063,
      rows |-> <<CollateralRow("L4", "loan", 3600, 100, 12, 2, 3, 1063, 1199, TRUE),
                 CollateralRow("L5", "loan", 1200, 80, 12, 2, 3, 1063, 1060, TRUE)>>]}

Assumptions ==
    {[cpr |-> 0, cdr |-> 0], [cpr |-> 100, cdr |-> 0], [cpr |-> 0, cdr |-> 100]}

FeeConfigs ==
    {[expenses_rate |-> 1, expenses_fixed |-> 120, senior_rate |-> 2, junior_rate |-> 2,
      fee_rebate |-> 0, irr_balance |-> 4000, irr_threshold |-> 12, excess_pct |-> 20],
     [expenses_rate |-> 1, expenses_fixed |-> 120, senior_rate |-> 2, junior_rate |-> 2,
      fee_rebate |-> 1, irr_balance |-> 10, irr_threshold |-> 12, excess_pct |-> 20]}

Deals ==
    {[report_date |-> 1000,
      next_payment_date |-> c.next_payment_date,
      payment_months |-> 3,
      payment_day |-> DayOf(c.next_payment_date),
      reinvestment_end_date |-> re,
      reinvestment_maturity_months |-> 3,
      tranche_rows |-> Append(rows, EquityRow(eq)),
      collateral |-> c.rows,
      fee_config |-> fc,
      collection_acc_principal_bal |-> pb,
      cpr |-> a.cpr,
      cdr |-> a.cdr,
      recovery_rate |-> 50,
      liquidation_type |-> "nav90",
      cpr_lockout_end_date |-> 1040,
      cdr_lockout_end_date |-> 1040,
      curve |-> [d0 |-> 1000, r0 |-> 2, d1 |-> 1360, r1 |-> 6]] :
        rows \in DebtRowSeqs, c \in Collaterals, a \in Assumptions, fc \in FeeConfigs,
        re \in {970, 1130}, pb \in {0, 500}, eq \in {600, 6000}}

NoProbe == [kind |-> "none"]

\* CLOFactory.build and CLO.__init__ for the deal cfg
InitDeal(cfg) ==
    LET built == TrancheFactoryBuild(cfg.tranche_rows, cfg.report_date)
        prior_payment_date == AddMonths(cfg.next_payment_date, 0 - cfg.payment_months)
        ts0 == Append(built.debt_tranches, built.equity_tranche)
        as0 == [i \in 1..Len(cfg.collateral) |-> BuildAsset(cfg.collateral[i], cfg)]
        as1 == PortfolioSimulate(as0, cfg.report_date, cfg.curve)
        si == PortfolioSweepInterest(as1, 0)
        sp == PortfolioSweepPrincipal(si.assets, cfg.collection_acc_principal_bal)
        fs0 == FeeFactoryBuild(cfg.fee_config, cfg.report_date)
        first == FirstSimulationDate(cfg.report_date, cfg.next_payment_date)
        snapshot == [date |-> cfg.report_date,
                     interest_swept |-> si.swept,
                     principal_swept |-> sp.swept,
                     principal_reinvested |-> 0,
                     interest_account_balance |-> si.destination,
                     principal_account_balance |-> sp.destination,
                     total_debt |-> TotalDebt(ts0),
                     total_asset_par |-> TotalAssetBalance(sp.assets)]
    IN  /\ deal = cfg
        /\ pc = "loop"
        /\ error = "none"
        /\ n_steps = 0
        /\ simulate_until = first
        /\ next_payment_date = cfg.next_payment_date
        /\ liquidation_date =
              InitialLiquidationDate(cfg.report_date, cfg.reinvestment_end_date, as0)
        /\ in_liquidation = FALSE
        /\ on_payment_date = FALSE
        /\ assets = sp.assets
        /\ tranches = [i \in 1..Len(ts0) |->
                         [ts0[i] EXCEPT !.last_simulation_date = prior_payment_date]]
        /\ fees = [i \in 1..Len(fs0) |->
                     [fs0[i] EXCEPT
                        !.last_simulation_date = prior_payment_date,
                        !.balance = AggregateCollateralBalance(
                                        as0, cfg.collection_acc_principal_bal)]]
        /\ incentive_fee = IncentiveFeeBuild(cfg.fee_config, cfg.report_date)
        /\ interest_account = si.destination
        /\ principal_account = sp.destination
        /\ waterfall = WaterfallFactoryBuild(built.debt_tranches)
        /\ wf_run = "none"
        /\ wf_pos = 1
        /\ wf_log = <<>>
        /\ clo = [interest_swept |-> si.swept,
                  principal_swept |-> sp.swept,
                  principal_reinvested |-> 0,
                  num_reinvestment_assets |-> 0,
                  last_simulation_date |-> cfg.report_date,
                  history |-> <<snapshot>>]
        /\ probe = NoProbe

Init == \E cfg \in Deals : InitDeal(cfg)

Next ==
    \/ BeginStep
    \/ Liquidate
    \/ SimulatePortfolio
    \/ Sweep
    \/ SimulateFees
    \/ SimulateTranches
    \/ Reinvest
    \/ RefreshFeeBalances
    \/ PayEntry
    \/ StartPrincipalWaterfall
    \/ FinishWaterfalls
    \/ UpdateCoupons
    \/ TakeSnapshot

Spec == Init /\ [][Next]_vars

----------------------------------------------------------------------------
(* Construction of the CLO, for report dates before, on and after the next *)
(* payment date                                                            *)

\* deals of one debt tranche, as reported and with the report date moved to the
\* next payment date and a week past it
ConstructionDeals ==
    LET reported == {x \in Deals : /\ Len(x.tranche_rows) = 2
                                   /\ x.fee_config.fee_rebate = 1
                                   /\ x.collection_acc_principal_bal = 0
                                   /\ x.tranche_rows[2].cur_balance = 6000}
    IN  UNION {{d,
                [d EXCEPT !.report_date = d.next_payment_date],
                [d EXCEPT !.report_date = d.next_payment_date + 7]} : d \in reported}

\* CLO.__init__ has raised: no CLO exists for the deal cfg
FailedConstruction(cfg) ==
    /\ pc = "aborted"
    /\ error = "Exception"
    /\ n_steps = 0
    /\ simulate_until = 0
    /\ next_payment_date = 0
    /\ liquidation_date = 0
    /\ in_liquidation = FALSE
    /\ on_payment_date = FALSE
    /\ deal = cfg
    /\ assets = <<>>
    /\ tranches = <<>>
    /\ fees = <<>>
    /\ incentive_fee = [cls |-> "none"]
    /\ interest_account = 0
    /\ principal_account = 0
    /\ waterfall = <<>>
    /\ wf_run = "none"
    /\ wf_pos = 1
    /\ wf_log = <<>>
    /\ clo = [history |-> <<>>]
    /\ probe = NoProbe

\* CLOFactory.build and CLO.__init__: the constructor ends with
\* calc_first_simulation_date, which raises Exception unless the report date is
\* before the next payment date
InitConstruction ==
    \E cfg \in ConstructionDeals :
        IF ReportDateValid(cfg.report_date, cfg.next_payment_date)
        THEN InitDeal(cfg)
        ELSE FailedConstruction(cfg)

SpecConstruction == InitConstruction /\ [][Next]_vars

----------------------------------------------------------------------------
(* Deals whose collateral pays between the deal's payment dates: one bond  *)
(* paying every six months from day 1090, 17 December, five days after the *)
(* deal's payment date of 12 December                                      *)

SaleDeals ==
    {[d EXCEPT !.collateral =
          <<CollateralRow("B2", "bond", 3600, 60, 6, 0, 6, 1090, 1500, FALSE)>>] :
        d \in {x \in Deals : x.next_payment_date = 1075 /\ Len(x.collateral) = 1}}

InitSale == \E cfg \in SaleDeals : InitDeal(cfg)

SpecSale == InitSale /\ [][Next]_vars

----------------------------------------------------------------------------
(* Deals that start inside their reinvestment period and are run into their *)
(* liquidation: the reinvestment period ends on 12 November (day 1045), a    *)
(* cursor date, the liquidation date is two years later, and the one loan    *)
(* matures after it; nothing prepays or defaults (the lockouts never end)    *)

LongDeals ==
    {[d EXCEPT !.collateral =
                  <<CollateralRow("L6", "loan", 3600, 90, 12, 2, 3, 1075, 1900, TRUE)>>,
               !.reinvestment_end_date = 1045,
               !.cpr_lockout_end_date = FarDate,
               !.cdr_lockout_end_date = FarDate] :
        d \in {x \in Deals : /\ x.next_payment_date = 1075
                             /\ Len(x.collateral) = 1
                             /\ x.cpr = 0
                             /\ x.cdr = 0
                             /\ x.tranche_rows[Len(x.tranche_rows)].cur_balance = 6000}}

InitLong == \E cfg \in LongDeals : InitDeal(cfg)

SpecLong == InitLong /\ [][Next]_vars

----------------------------------------------------------------------------
(* Unit specifications: one object of the program driven directly.  The     *)
(* object lives in the variable the simulation keeps it in (an account in   *)
(* interest_account, a tranche in tranches, a waterfall in waterfall), the  *)
(* rest of the state is idle and probe records the call made.               *)

\* the largest amount of a request_debit or credit call, and the lowest balance
\* an account is created with, negated
MaxAmount == 3
\* the largest balance an account is credited up to
MaxBalance == 6
\* the largest deferred and accrued interest of the tranche paid
MaxInterest == 4
\* the largest balance of the account the tranche is paid from
MaxSource == 9
\* the most debt tranches handed to a factory
MaxRatings == 3
\* the largest hurdle balance an incentive fee is built with
MaxHurdle == 4
\* the most calls made on a fee under test
MaxCalls == 3
\* the most calls made on a portfolio under test
MaxPortfolioCalls == 4

simVars == <<pc, error, n_steps, simulate_until, next_payment_date, liquidation_date,
             in_liquidation, on_payment_date, deal, assets, fees, incentive_fee,
             principal_account, wf_run, wf_pos, wf_log, clo>>

\* the idle state around the object under test
Unit(p, account, ts, wf) ==
    /\ pc = "unit"
    /\ error = "none"
    /\ n_steps = 0
    /\ simulate_until = 0
    /\ next_payment_date = 0
    /\ liquidation_date = 0
    /\ in_liquidation = FALSE
    /\ on_payment_date = FALSE
    /\ deal = [report_date |-> 0]
    /\ assets = <<>>
    /\ tranches = ts
    /\ fees = <<>>
    /\ incentive_fee = [cls |-> "none"]
    /\ interest_account = account
    /\ principal_account = 0
    /\ waterfall = wf
    /\ wf_run = "none"
    /\ wf_pos = 1
    /\ wf_log = <<>>
    /\ clo = [history |-> <<>>]
    /\ probe = p

(* Account *)

Amounts == (0 - MaxAmount)..MaxAmount

\* Account(balance): any balance, negative ones too
InitAccount ==
    \E b \in (0 - MaxAmount)..MaxBalance :
        Unit([kind |-> "account", call |-> "new", amount |-> 0, before |-> b,
              returned |-> 0, raised |-> FALSE], b, <<>>, <<>>)

\* account.request_debit(amount)
AccountRequestDebit ==
    /\ pc = "unit"
    /\ probe.kind = "account"
    /\ \E amount \in Amounts :
          LET r == RequestDebit(interest_account, amount)
          IN  /\ interest_account' = r.balance
              /\ probe' = [kind |-> "account", call |-> "request_debit",
                           amount |-> amount, before |-> interest_account,
                           returned |-> r.debited, raised |-> FALSE]
    /\ UNCHANGED <<simVars, tranches, waterfall>>

\* account.credit(amount)
AccountCredit ==
    /\ pc = "unit"
    /\ probe.kind = "account"
    /\ \E amount \in Amounts :
          LET r == Credit(interest_account, amount)
          IN  /\ interest_account + amount <= MaxBalance
              /\ interest_account' = r.balance
              /\ probe' = [kind |-> "account", call |-> "credit",
                           amount |-> amount, before |-> interest_account,
                           returned |-> r.returned, raised |-> ~r.ok]
    /\ UNCHANGED <<simVars, tranches, waterfall>>

NextAccount ==
    \/ AccountRequestDebit
    \/ AccountCredit

SpecAccount == InitAccount /\ [][NextAccount]_vars

(* Tranche.pay_interest *)

\* a debt tranche holding deferred interest D and accrued interest A, and a source
\* account holding S
InitTranche ==
    \E D \in 0..MaxInterest, A \in 0..MaxInterest, S \in 0..MaxSource :
        Unit([kind |-> "tranche", call |-> "new", deferred |-> D, accrued |-> A,
              source |-> S],
             S,
             <<[NewTranche("Tranche", "A", 100, 0, 5, 0, TRUE) EXCEPT
                  !.deferred_interest = D, !.interest_accrued = A]>>,
             <<>>)

\* tranche.pay_interest(source, PaymentSource.Interest)
TranchePaysInterest ==
    /\ pc = "unit"
    /\ probe.kind = "tranche"
    /\ probe.call = "new"
    /\ LET r == TranchePayInterest(tranches[1], interest_account)
       IN  /\ tranches' = <<r.tranche>>
           /\ interest_account' = r.source
    /\ probe' = [probe EXCEPT !.call = "pay_interest"]
    /\ UNCHANGED <<simVars, waterfall>>

NextTranche == TranchePaysInterest

SpecTranche == InitTranche /\ [][NextTranche]_vars

(* IncentiveFee.simulate and IncentiveFee.pay *)

\* the idle state around a fee under test
UnitFee(p, account, fs, inc) ==
    /\ pc = "unit"
    /\ error = "none"
    /\ n_steps = 0
    /\ simulate_until = 0
    /\ next_payment_date = 0
    /\ liquidation_date = 0
    /\ in_liquidation = FALSE
    /\ on_payment_date = FALSE
    /\ deal = [report_date |-> 0]
    /\ assets = <<>>
    /\ tranches = <<>>
    /\ fees = fs
    /\ incentive_fee = inc
    /\ interest_account = account
    /\ principal_account = 0
    /\ waterfall = <<>>
    /\ wf_run = "none"
    /\ wf_pos = 1
    /\ wf_log = <<>>
    /\ clo = [history |-> <<>>]
    /\ probe = p

feeUnitVars == <<pc, error, n_steps, simulate_until, next_payment_date, liquidation_date,
                 in_liquidation, on_payment_date, deal, assets, tranches,
                 principal_account, waterfall, wf_run, wf_pos, wf_log, clo>>

\* diversion rates of 0, 20, 50 and 100 percent
DiversionRates == {0, 20, 50, 100}

\* the days a simulate call moves on by
AccrualDays == {0, DCF_DENOMINATOR}

\* IncentiveFee(balance, 0.5, diversion_rate, report_date)
InitIncentive ==
    \E B \in 0..MaxHurdle, rate \in DiversionRates :
        UnitFee([kind |-> "incentive", call |-> "new", calls |-> 0, source_before |-> 0,
                 balance_before |-> B, paid |-> 0, raised |-> FALSE],
                0, <<>>,
                NewFee("IncentiveFee", "Incentive Fee", B, 50, 0, 0, 0, rate))

\* incentive_fee.simulate(simulate_until)
IncentiveSimulates ==
    /\ pc = "unit"
    /\ probe.kind = "incentive"
    /\ probe.calls < MaxCalls
    /\ \E days \in AccrualDays :
          incentive_fee' = FeeSimulate(incentive_fee, incentive_fee.last_simulation_date + days)
    /\ probe' = [probe EXCEPT !.call = "simulate", !.calls = @ + 1,
                              !.balance_before = incentive_fee.balance,
                              !.source_before = interest_account,
                              !.paid = 0, !.raised = FALSE]
    /\ UNCHANGED <<feeUnitVars, fees, interest_account>>

\* incentive_fee.pay(source, attribute_source) on a source holding F
IncentivePays ==
    /\ pc = "unit"
    /\ probe.kind = "incentive"
    /\ probe.calls < MaxCalls
    /\ \E F \in 0..MaxSource :
          LET r == IncentivePay(incentive_fee, F)
          IN  /\ incentive_fee' = r.fee
              /\ interest_account' = r.source
              /\ probe' = [probe EXCEPT !.call = "pay", !.calls = @ + 1,
                                        !.balance_before = incentive_fee.balance,
                                        !.source_before = F,
                                        !.paid = r.paid, !.raised = ~r.ok]
    /\ UNCHANGED <<feeUnitVars, fees>>

NextIncentive ==
    \/ IncentiveSimulates
    \/ IncentivePays

SpecIncentive == InitIncentive /\ [][NextIncentive]_vars

(* Fee.pay *)

\* rebate rates of a fee whose rate is 2 percent: rebate fractions 0, 1/2 and 1
RebateRates == {0, 1, 2}

\* a management fee that has accrued A, and a source account holding S
InitFee ==
    \E A \in 0..MaxInterest, S \in 0..MaxSource, rebate_rate \in RebateRates :
        UnitFee([kind |-> "fee", call |-> "new", accrued_before |-> A,
                 source_before |-> S, paid |-> 0, raised |-> FALSE],
                S,
                <<[NewFee("Fee", "Junior Mgmt Fee", 100, 2, 0, 0, rebate_rate, 0) EXCEPT
                     !.interest_accrued = A]>>,
                [cls |-> "none"])

\* fee.pay(source, attribute_source)
FeePays ==
    /\ pc = "unit"
    /\ probe.kind = "fee"
    /\ probe.call = "new"
    /\ LET r == FeePay(fees[1], interest_account)
       IN  /\ fees' = <<r.fee>>
           /\ interest_account' = r.source
           /\ probe' = [probe EXCEPT !.call = "pay", !.paid = r.paid, !.raised = ~r.ok]
    /\ UNCHANGED <<feeUnitVars, incentive_fee>>

NextFee == FeePays

SpecFee == InitFee /\ [][NextFee]_vars

(* EquityTranche.pay_interest and EquityTranche.pay_principal *)

\* the balances of the source account an equity tranche is paid from
EquityFunds == {0, 1, MaxBalance, MaxSource}

\* EquityTranche(balance, report_date)
InitEquity ==
    \E E \in 0..MaxBalance :
        Unit([kind |-> "equity", call |-> "new", calls |-> 0, balance_before |-> E,
              source_before |-> 0, paid |-> 0],
             0,
             <<NewTranche("EquityTranche", "Equity", E, 0, 0, 0, FALSE)>>,
             <<>>)

\* equity.pay_interest(source, attribute_source) on a source holding F
EquityPaysInterest ==
    /\ pc = "unit"
    /\ probe.kind = "equity"
    /\ probe.calls < MaxCalls
    /\ \E F \in EquityFunds :
          LET r == EquityPayInterest(tranches[1], F)
          IN  /\ tranches' = <<r.tranche>>
              /\ interest_account' = r.source
              /\ probe' = [probe EXCEPT !.call = "pay_interest", !.calls = @ + 1,
                                        !.balance_before = tranches[1].balance,
                                        !.source_before = F, !.paid = r.paid]
    /\ UNCHANGED <<simVars, waterfall>>

\* equity.pay_principal(source, attribute_source) on a source holding F
EquityPaysPrincipal ==
    /\ pc = "unit"
    /\ probe.kind = "equity"
    /\ probe.calls < MaxCalls
    /\ \E F \in EquityFunds :
          LET r == EquityPayPrincipal(tranches[1], F)
          IN  /\ tranches' = <<r.tranche>>
              /\ interest_account' = r.source
              /\ probe' = [probe EXCEPT !.call = "pay_principal", !.calls = @ + 1,
                                        !.balance_before = tranches[1].balance,
                                        !.source_before = F, !.paid = r.paid]
    /\ UNCHANGED <<simVars, waterfall>>

NextEquity ==
    \/ EquityPaysInterest
    \/ EquityPaysPrincipal

SpecEquity == InitEquity /\ [][NextEquity]_vars

(* Portfolio.simulate and Portfolio.liquidate on a portfolio as built *)

\* the idle state around a portfolio under test
UnitPortfolio(p, cfg, as) ==
    /\ pc = "unit"
    /\ error = "none"
    /\ n_steps = 0
    /\ simulate_until = 0
    /\ next_payment_date = 0
    /\ liquidation_date = 0
    /\ in_liquidation = FALSE
    /\ on_payment_date = FALSE
    /\ deal = cfg
    /\ assets = as
    /\ tranches = <<>>
    /\ fees = <<>>
    /\ incentive_fee = [cls |-> "none"]
    /\ interest_account = 0
    /\ principal_account = 0
    /\ waterfall = <<>>
    /\ wf_run = "none"
    /\ wf_pos = 1
    /\ wf_log = <<>>
    /\ clo = [history |-> <<>>]
    /\ probe = p

portfolioUnitVars == <<pc, error, n_steps, simulate_until, next_payment_date,
                       liquidation_date, in_liquidation, on_payment_date, deal,
                       tranches, fees, incentive_fee, interest_account,
                       principal_account, waterfall, wf_run, wf_pos, wf_log, clo>>

\* the prepayment, default and recovery assumptions a portfolio is built with
PortfolioAssumptions ==
    {[cpr |-> 0, cdr |-> 0, recovery_rate |-> 100],
     [cpr |-> 100, cdr |-> 0, recovery_rate |-> 50],
     [cpr |-> 0, cdr |-> 100, recovery_rate |-> 50],
     [cpr |-> 100, cdr |-> 100, recovery_rate |-> 50]}

\* the prepayment lockout ends early in the deal, or on the day the loan L4
\* matures: after every maturity but the long loan's
PortfolioLockouts == {1040, 1199}

\* the days from one simulation target to the next
SimulateSteps == {0, 45, 90}

\* PortfolioFactory.build for a universe of assets
InitPortfolio ==
    \E c \in Collaterals, a \in PortfolioAssumptions, lockout \in PortfolioLockouts :
        LET cfg == [report_date |-> 1000,
                    collateral |-> c.rows,
                    cpr |-> a.cpr,
                    cdr |-> a.cdr,
                    recovery_rate |-> a.recovery_rate,
                    cpr_lockout_end_date |-> lockout,
                    cdr_lockout_end_date |-> 1040,
                    curve |-> [d0 |-> 1000, r0 |-> 2, d1 |-> 1360, r1 |-> 6]]
            as == [i \in 1..Len(c.rows) |-> BuildAsset(c.rows[i], cfg)]
        IN  UnitPortfolio([kind |-> "portfolio", call |-> "new", calls |-> 0,
                           target |-> cfg.report_date, before |-> as,
                           liquidation_type |-> "none"], cfg, as)

\* portfolio.simulate(simulate_until), the targets never going back
PortfolioSimulates ==
    /\ pc = "unit"
    /\ probe.kind = "portfolio"
    /\ probe.calls < MaxPortfolioCalls
    /\ \E step \in SimulateSteps :
          /\ assets' = PortfolioSimulate(assets, probe.target + step, deal.curve)
          /\ probe' = [probe EXCEPT !.call = "simulate", !.calls = @ + 1,
                                    !.target = @ + step, !.before = assets]
    /\ UNCHANGED portfolioUnitVars

\* portfolio.liquidate(accrual_date, liquidation_type), two weeks after the last
\* target as in CLO.simulate
PortfolioLiquidates ==
    /\ pc = "unit"
    /\ probe.kind = "portfolio"
    /\ probe.calls < MaxPortfolioCalls
    /\ \E liquidation_type \in LiquidationTypes :
          /\ assets' = PortfolioLiquidate(assets, probe.target + 14, liquidation_type)
          /\ probe' = [probe EXCEPT !.call = "liquidate", !.calls = @ + 1,
                                    !.before = assets,
                                    !.liquidation_type = liquidation_type]
    /\ UNCHANGED portfolioUnitVars

\* portfolio.sweep_principal(principal_account)
PortfolioSweepsPrincipal ==
    /\ pc = "unit"
    /\ probe.kind = "portfolio"
    /\ probe.calls < MaxPortfolioCalls
    /\ LET sp == PortfolioSweepPrincipal(assets, principal_account)
       IN  /\ assets' = sp.assets
           /\ principal_account' = sp.destination
           /\ pc' = IF sp.ok THEN "unit" ELSE "aborted"
           /\ error' = IF sp.ok THEN "none" ELSE "ValueError"
    /\ probe' = [probe EXCEPT !.call = "sweep_principal", !.calls = @ + 1,
                              !.before = assets]
    /\ UNCHANGED <<n_steps, simulate_until, next_payment_date, liquidation_date,
                   in_liquidation, on_payment_date, deal, tranches, fees,
                   incentive_fee, interest_account, waterfall, wf_run, wf_pos,
                   wf_log, clo>>

NextPortfolio == PortfolioSimulates \/ PortfolioLiquidates \/ PortfolioSweepsPrincipal

SpecPortfolio == InitPortfolio /\ [][NextPortfolio]_vars

(* CLO.liquidate called on a CLO as constructed *)

\* what CLO.liquidate writes
LiquidationState ==
    [in_liquidation |-> in_liquidation,
     liquidation_date |-> liquidation_date,
     assets |-> assets,
     tranches |-> tranches,
     fees |-> fees,
     incentive_fee |-> incentive_fee]

\* the months from the cursor to the redemption date of a call
RedemptionMonths == {1, 2}

\* clo.liquidate(accrual_date, liquidation_date, liquidation_type), two weeks and
\* one month after the cursor, or four weeks and two months
CLOLiquidates ==
    /\ pc = "loop"
    /\ probe.kind = "none" \/ (probe.kind = "clo" /\ probe.calls < MaxCalls)
    /\ \E k \in RedemptionMonths :
          LET accrual_date == simulate_until + 14 * k
              redemption_date == AddMonths(simulate_until, k)
          IN  /\ CLOLiquidate(accrual_date, redemption_date, deal.liquidation_type)
              /\ probe' = [kind |-> "clo",
                           call |-> "liquidate",
                           calls |-> IF probe.kind = "none" THEN 1 ELSE probe.calls + 1,
                           accrual_date |-> accrual_date,
                           liquidation_date |-> redemption_date,
                           repeated |-> /\ probe.kind = "clo"
                                        /\ probe.accrual_date = accrual_date
                                        /\ probe.liquidation_date = redemption_date,
                           before |-> LiquidationState]
    /\ UNCHANGED <<pc, error, n_steps, simulate_until, next_payment_date,
                   on_payment_date, accountVars, runVars, clo, deal, waterfall>>

NextLiquidation == CLOLiquidates

SpecLiquidation == Init /\ [][NextLiquidation]_vars

(* notify_of_liquidation and simulate on the tranches and the fees of a deal *)

\* the idle state around the tranches and the fees under test
UnitVehicles(p, ts, fs, inc) ==
    /\ pc = "unit"
    /\ error = "none"
    /\ n_steps = 0
    /\ simulate_until = 0
    /\ next_payment_date = 0
    /\ liquidation_date = 0
    /\ in_liquidation = FALSE
    /\ on_payment_date = FALSE
    /\ deal = [report_date |-> 0]
    /\ assets = <<>>
    /\ tranches = ts
    /\ fees = fs
    /\ incentive_fee = inc
    /\ interest_account = 0
    /\ principal_account = 0
    /\ waterfall = <<>>
    /\ wf_run = "none"
    /\ wf_pos = 1
    /\ wf_log = <<>>
    /\ clo = [history |-> <<>>]
    /\ probe = p

vehicleUnitVars == <<pc, error, n_steps, simulate_until, next_payment_date,
                     liquidation_date, in_liquidation, on_payment_date, deal, assets,
                     interest_account, principal_account, waterfall, wf_run, wf_pos,
                     wf_log, clo>>

\* the tranches, the fees and the incentive fee under test
Vehicles == [tranches |-> tranches, fees |-> fees, incentive_fee |-> incentive_fee]

\* the days from the last target to a call date and to the next target
CallDateDays == {30, 60}
TargetDays == {20, 45}

\* one debt tranche and the equity tranche, the three fees on a collateral balance
\* of 3600 and the incentive fee, as built on day 1000
InitVehicles ==
    \E row \in DebtRows, fc \in FeeConfigs :
        LET built == TrancheFactoryBuild(<<row, EquityRow(600)>>, 1000)
            ts == Append(built.debt_tranches, built.equity_tranche)
            fs0 == FeeFactoryBuild(fc, 1000)
            fs == [i \in 1..Len(fs0) |-> [fs0[i] EXCEPT !.balance = 3600]]
            inc == IncentiveFeeBuild(fc, 1000)
        IN  UnitVehicles([kind |-> "vehicles", call |-> "new", calls |-> 0,
                          target |-> 1000,
                          before |-> [tranches |-> ts, fees |-> fs,
                                      incentive_fee |-> inc]],
                         ts, fs, inc)

\* notify_of_liquidation(d) on every tranche and fee, d on or after the last target
VehiclesNotified ==
    /\ pc = "unit"
    /\ probe.kind = "vehicles"
    /\ probe.calls < MaxCalls
    /\ \E days \in CallDateDays :
          LET d == probe.target + days
          IN  /\ tranches' = [i \in 1..Len(tranches) |-> TrancheNotify(tranches[i], d)]
              /\ fees' = [i \in 1..Len(fees) |-> FeeNotify(fees[i], d)]
              /\ incentive_fee' = FeeNotify(incentive_fee, d)
    /\ probe' = [probe EXCEPT !.call = "notify_of_liquidation", !.calls = @ + 1,
                              !.before = Vehicles]
    /\ UNCHANGED vehicleUnitVars

\* simulate(target) on every tranche and fee, the targets never going back
VehiclesSimulate ==
    /\ pc = "unit"
    /\ probe.kind = "vehicles"
    /\ probe.calls < MaxCalls
    /\ \E days \in TargetDays :
          LET until == probe.target + days
          IN  /\ tranches' = [i \in 1..Len(tranches) |-> TrancheSimulate(tranches[i], until)]
              /\ fees' = [i \in 1..Len(fees) |-> FeeSimulate(fees[i], until)]
              /\ incentive_fee' = FeeSimulate(incentive_fee, until)
              /\ probe' = [probe EXCEPT !.call = "simulate", !.calls = @ + 1,
                                        !.target = until, !.before = Vehicles]
    /\ UNCHANGED vehicleUnitVars

NextVehicles == VehiclesNotified \/ VehiclesSimulate

SpecVehicles == InitVehicles /\ [][NextVehicles]_vars

(* Asset.liquidate and Asset.simulate on one asset *)

\* the kinds an Asset is constructed with: the two of AssetKind, and another value
AssetKinds == {"loan", "bond", "swap"}

\* the days from the last target to the accrual date of a sale: every weekday
AccrualLags == 0..6

\* the days from one simulation target to the next
AssetSteps == {0, 7, 45}

\* Asset(...) on the report date, day 1000: balance 2400 at a price of 0.95, paying
\* quarterly from day 1045, maturing before or after that payment date
InitAsset ==
    \E kind \in AssetKinds, a \in PortfolioAssumptions, maturity \in {1020, 1100} :
        LET cfg == [report_date |-> 1000,
                    cpr |-> a.cpr,
                    cdr |-> a.cdr,
                    recovery_rate |-> a.recovery_rate,
                    curve |-> [d0 |-> 1000, r0 |-> 2, d1 |-> 1360, r1 |-> 6]]
            as == <<NewAsset("X1", kind, 2400, 95, 2, 12, 3, 1000, 1045, maturity,
                             1040, 1040, a.cpr, a.cdr, a.recovery_rate, TRUE)>>
        IN  UnitPortfolio([kind |-> "asset", call |-> "new", calls |-> 0,
                           target |-> 1000, accrual_date |-> 0, before |-> as],
                          cfg, as)

\* asset.liquidate(accrual_date)
AssetLiquidates ==
    /\ pc = "unit"
    /\ probe.kind = "asset"
    /\ probe.calls < MaxCalls
    /\ \E lag \in AccrualLags :
          /\ assets' = <<AssetLiquidate(assets[1], probe.target + lag)>>
          /\ probe' = [probe EXCEPT !.call = "liquidate", !.calls = @ + 1,
                                    !.accrual_date = probe.target + lag,
                                    !.before = assets]
    /\ pc' = IF InvalidAssetKind(assets[1]) THEN "aborted" ELSE "unit"
    /\ error' = IF InvalidAssetKind(assets[1]) THEN "ValueError" ELSE "none"
    /\ UNCHANGED <<n_steps, simulate_until, next_payment_date, liquidation_date,
                   in_liquidation, on_payment_date, deal, tranches, fees,
                   incentive_fee, interest_account, principal_account, waterfall,
                   wf_run, wf_pos, wf_log, clo>>

\* asset.simulate(simulate_until), the targets never going back
AssetSimulates ==
    /\ pc = "unit"
    /\ probe.kind = "asset"
    /\ probe.calls < MaxCalls
    /\ \E step \in AssetSteps :
          /\ assets' = <<AssetSimulate(assets[1], probe.target + step, deal.curve)>>
          /\ probe' = [probe EXCEPT !.call = "simulate", !.calls = @ + 1,
                                    !.target = @ + step, !.before = assets]
    /\ UNCHANGED portfolioUnitVars

NextAsset == AssetLiquidates \/ AssetSimulates

SpecAsset == InitAsset /\ [][NextAsset]_vars

(* The factories' ordering of the debt tranches *)

Ratings == {"AAA", "AA", "A", "BBB", "BB", "B"}

RatingSeqs == UNION {[1..n -> Ratings] : n \in 1..MaxRatings}

\* the tranche rows of a deal whose debt tranches have these ratings, in row order
RowsOf(ratings) ==
    Append([i \in 1..Len(ratings) |->
               [tranche |-> ratings[i], tranche_type |-> "float", cur_balance |-> 100,
                coupon |-> 5, margin |-> 1]],
           EquityRow(100))

\* the ratings of a waterfall's debt tranche entries, in the waterfall's order
WaterfallRatings(wf, ts) ==
    LET RECURSIVE Walk(_)
        Walk(i) == IF i > Len(wf) THEN <<>>
                   ELSE (IF wf[i].payee.kind = "tranche"
                         THEN <<ts[wf[i].payee.idx].rating>> ELSE <<>>) \o Walk(i + 1)
    IN  Walk(1)

\* CLOFactory.build_tranches of src/clo_factory.py: sorted by sort_order.index
CLOFactoryBuildTranches(rows, report_date) ==
    [debt_tranches |->
        LET debt_tranches == DebtTranchesOf(rows, report_date)
        IN  Sorted(debt_tranches,
                   [i \in 1..Len(debt_tranches) |-> SortOrderIndex(debt_tranches[i].rating)]),
     equity_tranche |-> NewTranche("EquityTranche", "Equity", EquityBalanceOf(rows),
                                   0, 0, report_date, FALSE)]

\* CLOFactory.build_waterfall of src/clo_factory.py: senior fee, debt tranches,
\* junior fee, equity
CLOFactoryBuildWaterfall(debt) ==
    LET d0 == DictPut(<<>>, FeeKey("Senior Mgmt Fee"), [kind |-> "fee", idx |-> 1])
        d1 == PutTranches(d0, debt, 1, 0)
        d2 == DictPut(d1, FeeKey("Junior Mgmt Fee"), [kind |-> "fee", idx |-> 2])
    IN  DictPut(d2, FeeKey("Equity"), [kind |-> "equity", idx |-> Len(debt) + 1])

InitFactory ==
    \E ratings \in RatingSeqs :
        Unit([kind |-> "factory", ratings |-> ratings, factory |-> "none"], 0, <<>>, <<>>)

\* src/factories.py: TrancheFactory.build, then WaterfallFactory.build
FactoriesBuild ==
    /\ pc = "unit"
    /\ probe.kind = "factory"
    /\ probe.factory = "none"
    /\ LET built == TrancheFactoryBuild(RowsOf(probe.ratings), 0)
       IN  /\ tranches' = Append(built.debt_tranches, built.equity_tranche)
           /\ waterfall' = WaterfallFactoryBuild(built.debt_tranches)
    /\ probe' = [probe EXCEPT !.factory = "factories"]
    /\ UNCHANGED <<simVars, interest_account>>

\* src/clo_factory.py: CLOFactory.build_tranches, then CLOFactory.build_waterfall
CLOFactoryBuild ==
    /\ pc = "unit"
    /\ probe.kind = "factory"
    /\ probe.factory = "none"
    /\ LET built == CLOFactoryBuildTranches(RowsOf(probe.ratings), 0)
       IN  /\ tranches' = Append(built.debt_tranches, built.equity_tranche)
           /\ waterfall' = CLOFactoryBuildWaterfall(built.debt_tranches)
    /\ probe' = [probe EXCEPT !.factory = "clo_factory"]
    /\ UNCHANGED <<simVars, interest_account>>

NextFactory ==
    \/ FactoriesBuild
    \/ CLOFactoryBuild

SpecFactory == InitFactory /\ [][NextFactory]_vars

----------------------------------------------------------------------------
(* Properties *)

\* C1: in every state of the simulation (sweeps, reinvestment, both waterfalls,
\* every entry of a waterfall run observed) the balance of the interest account
\* and of the principal account is >= 0.
AccountsNeverNegative ==
    /\ interest_account >= 0
    /\ principal_account >= 0

\* C1's case: a debt tranche asked the interest account for more than it held, the
\* account was emptied and the tranche was left with deferred interest
AccountDrainedByTranche ==
    /\ pc = "waterfall"
    /\ wf_run = "interest"
    /\ \E k \in 1..Len(wf_log) :
          /\ wf_log[k].payee.kind = "tranche"
          /\ wf_log[k].source_before > 0
          /\ wf_log[k].source_after = 0
          /\ tranches[wf_log[k].payee.idx].deferred_interest > 0

\* C2: request_debit(amount) returns 0 and leaves the balance as it was when
\* amount <= 0 or balance <= 0; otherwise it returns min(amount, balance) and the
\* balance goes down by exactly the amount returned.
RequestDebitContract ==
    (probe.kind = "account" /\ probe.call = "request_debit") =>
        IF probe.amount <= 0 \/ probe.before <= 0
        THEN /\ probe.returned = 0
             /\ interest_account = probe.before
        ELSE /\ probe.returned = Min(probe.amount, probe.before)
             /\ interest_account = probe.before - probe.returned

\* C2's case: a request for more than a positive balance, answered by the balance
DebitClampedToBalance ==
    /\ probe.kind = "account"
    /\ probe.call = "request_debit"
    /\ probe.before > 0
    /\ probe.amount > probe.before
    /\ probe.returned = probe.before

\* C3: credit(amount) with amount < 0 raises and leaves the balance as it was; with
\* amount >= 0 it adds exactly amount to the balance and returns the new balance.
CreditContract ==
    (probe.kind = "account" /\ probe.call = "credit") =>
        IF probe.amount < 0
        THEN /\ probe.raised
             /\ interest_account = probe.before
        ELSE /\ ~probe.raised
             /\ interest_account = probe.before + probe.amount
             /\ probe.returned = interest_account

\* C3's case: a negative credit was refused on an account that holds money
NegativeCreditRefused ==
    /\ probe.kind = "account"
    /\ probe.call = "credit"
    /\ probe.amount < 0
    /\ probe.before > 0
    /\ probe.raised

\* C4: for every debt tranche, in every state, 0 <= balance <= initial_balance and
\* balance + the principal_paid of all its snapshots = initial_balance; and no step
\* increases its balance.
DebtTrancheBalanceAccounted ==
    /\ [](\A i \in 1..(Len(tranches) - 1) :
            /\ 0 <= tranches[i].balance
            /\ tranches[i].balance <= tranches[i].initial_balance
            /\ tranches[i].balance
                 + SumSeq([k \in 1..Len(tranches[i].history) |->
                              tranches[i].history[k].principal_paid])
               = tranches[i].initial_balance)
    /\ [][\A i \in 1..(Len(tranches) - 1) :
            tranches'[i].balance <= tranches[i].balance]_vars

\* C4's case: one debt tranche paid off in full and another paid down in part
DebtTranchePartlyPaid ==
    \E i, j \in 1..(Len(tranches) - 1) :
        /\ tranches[i].balance = 0
        /\ tranches[i].initial_balance > 0
        /\ tranches[j].balance > 0
        /\ tranches[j].balance < tranches[j].initial_balance

\* C5: in a run of the principal waterfall a debt tranche is paid principal > 0
\* only if every debt tranche of a more senior rating (AAA, AA, A, BBB, BB, B) has
\* already had its pay_principal in that run and has balance 0.
PrincipalPaidSeniorFirst ==
    (pc = "waterfall" /\ wf_run = "principal") =>
        \A k \in 1..Len(wf_log) :
            (wf_log[k].payee.kind = "tranche" /\ wf_log[k].paid > 0) =>
                \A j \in 1..(Len(tranches) - 1) :
                    SortOrderIndex(tranches[j].rating)
                        < SortOrderIndex(tranches[wf_log[k].payee.idx].rating) =>
                            /\ \E m \in 1..(k - 1) :
                                  wf_log[m].payee = [kind |-> "tranche", idx |-> j]
                            /\ tranches[j].balance = 0

\* C5, by position: a debt tranche is paid principal > 0 only if every debt tranche
\* earlier in the waterfall has balance 0 after its own pay_principal
PrincipalPaidInWaterfallOrder ==
    (pc = "waterfall" /\ wf_run = "principal") =>
        \A k \in 1..Len(wf_log) :
            (wf_log[k].payee.kind = "tranche" /\ wf_log[k].paid > 0) =>
                \A m \in 1..(k - 1) :
                    wf_log[m].payee.kind = "tranche" =>
                        tranches[wf_log[m].payee.idx].balance = 0

\* C5's case: the A tranche was paid principal while the AAA tranche was outstanding
JuniorPaidPrincipalFirst ==
    /\ pc = "waterfall"
    /\ wf_run = "principal"
    /\ \E k \in 1..Len(wf_log) :
          /\ wf_log[k].payee.kind = "tranche"
          /\ wf_log[k].paid > 0
          /\ tranches[wf_log[k].payee.idx].rating = "A"
          /\ \E j \in 1..(Len(tranches) - 1) :
                tranches[j].rating = "AAA" /\ tranches[j].balance > 0

\* C6: a waterfall run pays its entries in the order senior expenses fee, senior
\* management fee, every debt tranche, junior management fee, incentive fee, equity
\* tranche, each exactly once: the entries paid so far are always a prefix of that
\* list and a finished run has paid the whole list.
WaterfallOrderFixed ==
    pc = "waterfall" =>
        LET n == Len(tranches) - 1
            expected(k) ==
                IF k = 1 THEN [name |-> "Senior Expenses Fee", payee |-> [kind |-> "fee", idx |-> 1]]
                ELSE IF k = 2 THEN [name |-> "Senior Mgmt Fee", payee |-> [kind |-> "fee", idx |-> 2]]
                ELSE IF k <= n + 2 THEN [name |-> tranches[k - 2].rating,
                                         payee |-> [kind |-> "tranche", idx |-> k - 2]]
                ELSE IF k = n + 3 THEN [name |-> "Junior Mgmt Fee", payee |-> [kind |-> "fee", idx |-> 3]]
                ELSE IF k = n + 4 THEN [name |-> "Incentive Fee", payee |-> [kind |-> "incentive", idx |-> 1]]
                ELSE [name |-> "Equity", payee |-> [kind |-> "equity", idx |-> n + 1]]
        IN  /\ Len(wf_log) = wf_pos - 1
            /\ Len(wf_log) <= n + 5
            /\ wf_pos > Len(waterfall) => Len(wf_log) = n + 5
            /\ \A k \in 1..Len(wf_log) :
                  /\ wf_log[k].payee = expected(k).payee
                  /\ wf_log[k].key.name = expected(k).name
                  /\ wf_log[k].payee.kind = "fee" =>
                        fees[wf_log[k].payee.idx].name = expected(k).name

\* C6's case: a finished run over two debt tranches of the same rating
RunOverTwinRatings ==
    /\ pc = "waterfall"
    /\ wf_run = "principal"
    /\ wf_pos > Len(waterfall)
    /\ Len(tranches) = 3
    /\ tranches[1].rating = tranches[2].rating

\* C7: whichever factory builds the deal, the debt tranches stand in the waterfall
\* senior to junior: AAA before AA before A before BBB before BB before B.
FactoryOrdersSeniorToJunior ==
    (probe.kind = "factory" /\ probe.factory # "none") =>
        LET order == WaterfallRatings(waterfall, tranches)
        IN  /\ Len(order) = Len(probe.ratings)
            /\ \A i, j \in 1..Len(order) :
                  i < j => SortOrderIndex(order[i]) <= SortOrderIndex(order[j])

\* C7's case: TrancheFactory.build put a tranche ahead of a more senior one
JuniorBuiltAheadOfSenior ==
    /\ probe.kind = "factory"
    /\ probe.factory = "factories"
    /\ LET order == WaterfallRatings(waterfall, tranches)
       IN  \E i, j \in 1..Len(order) :
              i < j /\ SortOrderIndex(order[i]) > SortOrderIndex(order[j])

\* C8: on a payment date the interest account is 0 once the interest waterfall has
\* paid its last entry, and the principal account is 0 once the principal waterfall
\* has paid its last entry.
AccountsEmptyAfterWaterfall ==
    /\ (pc = "waterfall" /\ wf_run = "interest" /\ wf_pos > Len(waterfall)) =>
            interest_account = 0
    /\ (pc = "waterfall" /\ wf_run = "principal" /\ wf_pos > Len(waterfall)) =>
            principal_account = 0
    /\ pc = "coupons" => (interest_account = 0 /\ principal_account = 0)

\* C8's case: the interest waterfall has run, the junior fee rebated part of what it
\* took, the incentive fee handed money back and the equity tranche swept it
RebateSweptByEquity ==
    /\ pc = "waterfall"
    /\ wf_run = "interest"
    /\ wf_pos > Len(waterfall)
    /\ LastSnapshot(fees[3]).rebate > 0
    /\ wf_log[Len(wf_log) - 1].source_after > 0
    /\ wf_log[Len(wf_log)].paid = wf_log[Len(wf_log) - 1].source_after

\* C9: Tranche.pay_interest on deferred interest D, accrued interest A and a source
\* holding S debits d = min(D, S) for the deferred interest first and then
\* a = min(A, S - d); afterwards accrued is 0 and deferred is (D - d) + (A - a), so
\* deferred ends above D only if accrued interest was left unpaid.
PayInterestDeferredFirst ==
    (probe.kind = "tranche" /\ probe.call = "pay_interest") =>
        LET D == probe.deferred
            A == probe.accrued
            S == probe.source
            d == Min(D, S)
            a == Min(A, S - d)
            t == tranches[1]
        IN  /\ interest_account = S - d - a
            /\ LastSnapshot(t).deferred_interest_paid = d
            /\ LastSnapshot(t).interest_paid = d + a
            /\ t.interest_paid = d + a
            /\ t.interest_accrued = 0
            /\ t.deferred_interest = (D - d) + (A - a)
            /\ t.deferred_interest > D => a < A

\* C9's case: the source covered the deferred interest and part of the accrued
\* interest, and the rest of the accrued interest was deferred
AccruedShortfallDeferred ==
    /\ probe.kind = "tranche"
    /\ probe.call = "pay_interest"
    /\ probe.deferred > 0
    /\ probe.source > probe.deferred
    /\ probe.source < probe.deferred + probe.accrued
    /\ tranches[1].deferred_interest > 0

\* C10: only the interest waterfall of a payment date changes a tranche's
\* deferred_interest: every other step (liquidation notice, portfolio, sweep,
\* accrual, reinvestment, principal waterfall, coupon fixing, snapshot) leaves it
\* as it was.
DeferredInterestFrozenOffPayment ==
    [][\/ pc = "waterfall" /\ wf_run = "interest"
       \/ \A i \in 1..Len(tranches) :
             tranches'[i].deferred_interest = tranches[i].deferred_interest]_vars

\* C10's case: a step that is not a payment date has accrued interest on a tranche
\* that carries deferred interest
DeferredCarriedOffPayment ==
    /\ pc = "reinvest"
    /\ ~on_payment_date
    /\ \E i \in 1..(Len(tranches) - 1) :
          /\ tranches[i].deferred_interest > 0
          /\ tranches[i].interest_accrued > 0

\* C11: within a monthly step the sub-steps follow one another in the order
\* liquidation trigger, portfolio advance, sweep, fee accrual, tranche accrual,
\* reinvestment, then on a payment date the interest waterfall, the principal
\* waterfall and the coupon fixing, and last the snapshot; assets, payees,
\* accounts and history change in no other sub-step than their own
SubStepSuccessors ==
    [loop |-> {"liquidate", "portfolio", "done", "capped"},
     liquidate |-> {"portfolio"},
     portfolio |-> {"sweep"},
     sweep |-> {"fees"},
     fees |-> {"tranches"},
     tranches |-> {"reinvest"},
     reinvest |-> IF on_payment_date THEN {"fee_balances"} ELSE {"snapshot"},
     fee_balances |-> {"waterfall"},
     waterfall |-> {"waterfall", "coupons"},
     coupons |-> {"snapshot"},
     snapshot |-> {"loop"},
     done |-> {}, capped |-> {}, aborted |-> {}]

CashStranded ==
    /\ TotalAssetBalance(assets) = 0
    /\ principal_account > 0
    /\ ~InReinvestmentPeriod
    /\ simulate_until > next_payment_date

StrandedCashStaysStranded ==
    [][CashStranded => CashStranded']_vars

ReinvestStepContract ==
    IF simulate_until <= deal.reinvestment_end_date /\ principal_account > 0
    THEN /\ principal_account' = 0
         /\ clo'.principal_reinvested = principal_account
         /\ Len(assets') = Len(assets) + 1
         /\ SubSeq(assets', 1, Len(assets)) = assets
         /\ LET asset == assets'[Len(assets')]
            IN  /\ asset.price = Min(WeightedAveragePrice(assets), 100)
                /\ asset.balance = (principal_account * 100) \div asset.price
                /\ asset.next_payment_date =
                      IF simulate_until = next_payment_date
                      THEN AddMonths(next_payment_date, deal.payment_months)
                      ELSE next_payment_date
    ELSE /\ assets' = assets
         /\ principal_account' = principal_account
         /\ clo'.principal_reinvested = 0

\* C14: a step reinvests if and only if cursor <= reinvestment_end_date and
\* the principal account is positive; it then debits the whole account and
\* appends exactly one asset with price = min(weighted-average price, 1),
\* balance = cash / price and the next payment date of the CLO, or the one
\* after it when the cursor is a payment date; no other sub-step adds an asset
ReinvestmentContract ==
    [][/\ pc = "reinvest" => ReinvestStepContract
       /\ pc # "reinvest" => Len(assets') = Len(assets)]_vars

\* the same, for the reinvestment sub-steps that do not raise
ReinvestmentContractUnlessRaised ==
    [][/\ pc = "reinvest" /\ pc' # "aborted" => ReinvestStepContract
       /\ pc # "reinvest" => Len(assets') = Len(assets)]_vars

\* the reinvestment of a payment date has bought its asset
ReinvestedOnPaymentDate ==
    /\ pc = "fee_balances"
    /\ clo.principal_reinvested > 0
    /\ principal_account = 0
    /\ assets[Len(assets)].next_payment_date = AddMonths(simulate_until, deal.payment_months)

\* the cash of a reinvestment was debited and the run ended with no asset bought
ReinvestmentCashLost ==
    /\ pc = "aborted"
    /\ error = "ZeroDivisionError"
    /\ InReinvestmentPeriod
    /\ TotalAssetBalance(assets) = 0
    /\ principal_account = 0
    /\ clo.principal_swept > 0
    /\ tranches[EquityIndex(tranches)].balance > 0

IncentiveBalanceNeverNegative ==
    probe.kind = "incentive" => incentive_fee.balance >= 0

\* a pay call has cleared the hurdle: the source held more than the balance
HurdleClearedByPay ==
    /\ probe.kind = "incentive"
    /\ probe.call = "pay"
    /\ probe.calls > 1
    /\ probe.balance_before > 0
    /\ probe.source_before > probe.balance_before
    /\ incentive_fee.balance = 0

\* C17: IncentiveFee.pay on a source holding F with fee balance B pays
\* max(F - B, 0) * diversion_rate, leaves the source at F - payment and the
\* balance at max(B - F, 0); the payment is 0 when F <= B, it never exceeds F
\* and the credit back to the source does not raise
IncentivePayContract ==
    probe.kind = "incentive" /\ probe.call = "pay"
        => LET F == probe.source_before
               B == probe.balance_before
               payment == (Max(F - B, 0) * incentive_fee.diversion_rate) \div 100
           IN  /\ probe.paid = payment
               /\ interest_account = F - payment
               /\ incentive_fee.balance = Max(B - F, 0)
               /\ F <= B => probe.paid = 0
               /\ probe.paid <= F
               /\ ~probe.raised
               /\ LastSnapshot(incentive_fee).paid >= payment

\* a pay call has split the excess over the hurdle between manager and source
ExcessSplitByPay ==
    /\ probe.kind = "incentive"
    /\ probe.call = "pay"
    /\ probe.balance_before > 0
    /\ probe.source_before > probe.balance_before
    /\ probe.paid > 0
    /\ probe.paid < probe.source_before - probe.balance_before

\* C18: once the incentive fee's balance is 0 it is 0 in every later state of
\* the simulation, and every later pay call diverts diversion_rate times the
\* source balance and leaves the rest in the source
HurdleStaysCleared ==
    [][incentive_fee.balance = 0
        => /\ incentive_fee'.balance = 0
           /\ pc = "waterfall" /\ Len(wf_log') > Len(wf_log)
                /\ wf_log'[Len(wf_log')].payee.kind = "incentive" /\ pc' # "aborted"
                => LET entry == wf_log'[Len(wf_log')]
                       payment == (entry.source_before * incentive_fee.diversion_rate) \div 100
                   IN  /\ entry.paid = payment
                       /\ entry.source_after = entry.source_before - payment]_vars

\* the fee was simulated on a balance of 0 and then paid its share of a source
\* that held cash
ShareDivertedAfterHurdle ==
    /\ pc = "waterfall"
    /\ wf_log # <<>>
    /\ wf_log[Len(wf_log)].payee.kind = "incentive"
    /\ wf_log[Len(wf_log)].paid > 0
    /\ wf_log[Len(wf_log)].source_after > 0
    /\ LastSnapshot(incentive_fee).balance = 0
    /\ incentive_fee.history[1].balance > 0

\* C19: Fee.pay debits paid = min(accrued, source balance), reduces accrued by
\* paid, records paid - rebate as the fee paid, with rebate = paid * rebate
\* fraction, and credits the rebate back to the source, whose net reduction is
\* paid - rebate
FeePayContract ==
    probe.kind = "fee" /\ probe.call = "pay"
        => LET fee == fees[1]
               paid == Min(probe.accrued_before, probe.source_before)
               rebate == (paid * fee.rebate_rate) \div fee.interest_rate
           IN  /\ fee.interest_accrued = probe.accrued_before - paid
               /\ fee.interest_accrued >= 0
               /\ fee.interest_paid = paid - rebate
               /\ probe.paid = paid - rebate
               /\ LastSnapshot(fee).paid = paid - rebate
               /\ LastSnapshot(fee).rebate = rebate
               /\ interest_account = probe.source_before - (paid - rebate)
               /\ ~probe.raised

\* a fee was paid short of its accrual and half of the payment was rebated
FeePaidShortWithRebate ==
    /\ probe.kind = "fee"
    /\ probe.call = "pay"
    /\ probe.source_before < probe.accrued_before
    /\ fees[1].interest_accrued > 0
    /\ LastSnapshot(fees[1]).rebate > 0
    /\ LastSnapshot(fees[1]).paid > 0
    /\ interest_account = LastSnapshot(fees[1]).rebate

\* C20: the equity tranche's pay_interest and pay_principal each take the
\* whole source balance and leave the source at 0, whatever the equity
\* balance is; pay_interest leaves the equity balance alone, pay_principal
\* reduces it by the amount received with a floor of 0; the equity balance is
\* never negative
EquityIsResidualSink ==
    probe.kind = "equity"
        => /\ tranches[1].balance >= 0
           /\ probe.call # "new"
                => /\ probe.paid = probe.source_before
                   /\ interest_account = 0
           /\ probe.call = "pay_interest" => tranches[1].balance = probe.balance_before
           /\ probe.call = "pay_principal"
                => tranches[1].balance = Max(probe.balance_before - probe.source_before, 0)

\* an equity tranche whose balance was already 0 has taken a residual payment
\* of principal
ResidualPaidToEmptyEquity ==
    /\ probe.kind = "equity"
    /\ probe.call = "pay_principal"
    /\ probe.balance_before = 0
    /\ probe.paid > 0
    /\ LastSnapshot(tranches[1]).principal_paid > probe.paid

\* the balance of an asset has been set to 0 by its maturity or by the settlement
\* of its sale
ZeroedByMaturityOrSale(a) ==
    /\ a.balance = 0
    /\ \/ a.maturity = FarDate
       \/ a.last_simulation_date >= a.settlement_date

\* C21: over any sequence of simulate and liquidate calls with non-decreasing
\* target dates, no call leaves an asset with a negative balance, and an asset
\* whose balance was set to 0 by maturity or by the settlement of its sale still
\* has balance 0 after the call.
AssetBalanceContract ==
    [][\A i \in 1..Len(assets) :
          /\ assets[i].balance >= 0
          /\ assets'[i].balance >= 0
          /\ ZeroedByMaturityOrSale(assets[i]) => assets'[i].balance = 0]_vars

\* an asset sold below par has settled and was simulated again afterwards
SimulatedAfterSettlement ==
    /\ probe.kind = "portfolio"
    /\ probe.call = "simulate"
    /\ \E i \in 1..Len(assets) :
          /\ probe.before[i].history[1].balance > 0
          /\ probe.before[i].settlement_date < FarDate
          /\ probe.before[i].maturity < FarDate
          /\ ZeroedByMaturityOrSale(probe.before[i])
          /\ probe.before[i].principal_paid > 0
          /\ Len(assets[i].history) > Len(probe.before[i].history)
          /\ assets[i].balance = 0

RunToMaturityUnsold ==
    \A i \in 1..Len(assets) :
        /\ assets[i].maturity = FarDate
        /\ assets[i].settlement_date = FarDate

\* the principal the assets have paid out: swept into the principal account, or
\* still waiting on the assets for the next sweep
PrincipalPaidOut ==
    principal_account + SumSeq([i \in 1..Len(assets) |-> assets[i].principal_paid])

\* the balance the portfolio was built with
InitialPortfolioBalance ==
    SumSeq([i \in 1..Len(assets) |-> assets[i].history[1].balance])

\* C23: with cpr = cdr = 0 and recovery_rate = 1, once every asset has been run
\* to its maturity without a sale, the principal paid out by the assets and swept
\* from the portfolio equals the balance the portfolio started with.
PrincipalConserved ==
    (/\ probe.kind = "portfolio"
     /\ deal.cpr = 0
     /\ deal.cdr = 0
     /\ deal.recovery_rate = 100
     /\ RunToMaturityUnsold)
        => PrincipalPaidOut = InitialPortfolioBalance

\* a portfolio of two assets has run to maturity with nothing prepaid or
\* defaulted, and its principal was swept after the first maturity
SweptAfterMaturities ==
    /\ probe.kind = "portfolio"
    /\ deal.cpr = 0
    /\ deal.cdr = 0
    /\ deal.recovery_rate = 100
    /\ Len(assets) = 2
    /\ RunToMaturityUnsold
    /\ principal_account > 0
    /\ \E i \in 1..Len(assets) : assets[i].principal_paid > 0

\* asset i of a portfolio under test is locked out of prepayments up to its
\* maturity and was never sold
LockedOutToMaturity(i) ==
    /\ assets[i].cpr_lockout_end_date >= deal.collateral[i].maturity_date
    /\ assets[i].settlement_date = FarDate

\* C24: an asset whose cpr_lockout_end_date is on or after its maturity, and which
\* is not sold, prepays nothing in any simulate call, whatever its cpr: the
\* unscheduled principal of every snapshot is 0 and all the principal it has paid
\* is scheduled principal and recoveries.
NoPrepaymentUnderLockout ==
    probe.kind = "portfolio" =>
        \A i \in 1..Len(assets) :
            LockedOutToMaturity(i) =>
                /\ assets[i].unscheduled_principal = 0
                /\ \A k \in 1..Len(assets[i].history) :
                      assets[i].history[k].unscheduled_principal = 0

\* a loan with cpr = 1 whose lockout ends on its maturity date has been simulated
\* past the maturity and repaid its whole balance as scheduled principal
LockedOutLoanMatured ==
    /\ probe.kind = "portfolio"
    /\ deal.cpr = 100
    /\ deal.cdr = 0
    /\ \E i \in 1..Len(assets) :
          /\ LockedOutToMaturity(i)
          /\ assets[i].cpr_lockout_end_date = deal.collateral[i].maturity_date
          /\ assets[i].maturity = FarDate
          /\ assets[i].balance = 0
          /\ \E k \in 1..Len(assets[i].history) :
                assets[i].history[k].scheduled_principal = deal.collateral[i].face_value

\* the principal paid to tranche t so far: every payment is logged in the
\* snapshot of its period
PrincipalPaidTo(t) ==
    SumSeq([k \in 1..Len(t.history) |-> t.history[k].principal_paid])

\* the principal paid to all tranches so far, the equity tranche included
PrincipalPaidToTranches ==
    SumSeq([i \in 1..Len(tranches) |-> PrincipalPaidTo(tranches[i])])

\* the sweep of the step under way has run and its amount is not yet in a snapshot
SweptThisStep ==
    \/ pc \in {"fees", "tranches", "reinvest", "fee_balances", "waterfall",
               "coupons", "snapshot"}
    \/ pc = "aborted" /\ (error = "ZeroDivisionError" \/ wf_run # "none")

\* the principal swept from the portfolio so far, the sweep of CLO.__init__ included
PrincipalSweptSoFar ==
    SumSeq([k \in 1..Len(clo.history) |-> clo.history[k].principal_swept])
    + (IF SweptThisStep THEN clo.principal_swept ELSE 0)

\* C25: at every point of the simulation the principal paid to all tranches so far
\* is at most the principal swept from the portfolio so far plus the balance the
\* principal account started with.
NoMoneyCreation ==
    probe.kind = "none" =>
        PrincipalPaidToTranches <= PrincipalSweptSoFar + deal.collection_acc_principal_bal

\* the principal waterfall has paid out, to a debt tranche and to the equity
\* tranche, everything swept so far and the account's opening balance
AllPrincipalPaidOut ==
    /\ probe.kind = "none"
    /\ pc = "coupons"
    /\ deal.collection_acc_principal_bal > 0
    /\ Len(clo.history) > 2
    /\ PrincipalPaidTo(tranches[1]) > 0
    /\ PrincipalPaidTo(tranches[EquityIndex(tranches)]) > 0
    /\ PrincipalPaidToTranches = PrincipalSweptSoFar + deal.collection_acc_principal_bal

\* asset i, with nothing prepaid or defaulted, was on sale before the last
\* simulate call of a portfolio under test and settled in it before its maturity
SettledInLastCall(i) ==
    /\ probe.kind = "portfolio"
    /\ probe.call = "simulate"
    /\ deal.cpr = 0
    /\ deal.cdr = 0
    /\ probe.before[i].balance > 0
    /\ probe.before[i].last_simulation_date < probe.before[i].settlement_date
    /\ probe.before[i].maturity > probe.target
    /\ assets[i].last_simulation_date = assets[i].settlement_date

\* the sale proceeds Asset.simulate booked for asset i in the last call
SaleProceeds(i) == LastSnapshot(assets[i]).unscheduled_principal

InvalidReportDateNeverSimulated ==
    deal.report_date >= deal.next_payment_date =>
        /\ pc = "aborted"
        /\ error = "Exception"
        /\ n_steps = 0
        /\ clo.history = <<>>

\* the construction of a deal reported on its next payment date has failed
ConstructionFailedOnPaymentDate ==
    /\ deal.report_date = deal.next_payment_date
    /\ pc = "aborted"
    /\ error = "Exception"
    /\ n_steps = 0

\* C29: in a run of the interest waterfall a debt tranche is paid interest > 0 only
\* if every debt tranche of a more senior rating (AAA, AA, A, BBB, BB, B) has
\* already had its pay_interest in that run and ended it with no deferred
\* interest: its deferred and accrued interest were paid in full.
InterestPaidSeniorFirst ==
    (pc = "waterfall" /\ wf_run = "interest") =>
        \A k \in 1..Len(wf_log) :
            (wf_log[k].payee.kind = "tranche" /\ wf_log[k].paid > 0) =>
                \A j \in 1..(Len(tranches) - 1) :
                    SortOrderIndex(tranches[j].rating)
                        < SortOrderIndex(tranches[wf_log[k].payee.idx].rating) =>
                            /\ \E m \in 1..(k - 1) :
                                  wf_log[m].payee = [kind |-> "tranche", idx |-> j]
                            /\ tranches[j].deferred_interest = 0
                            /\ tranches[j].interest_accrued = 0

\* C29, by position: a debt tranche is paid interest > 0 only if every debt tranche
\* earlier in the waterfall ended its own pay_interest with its deferred and accrued
\* interest paid in full
InterestPaidInWaterfallOrder ==
    (pc = "waterfall" /\ wf_run = "interest") =>
        \A k \in 1..Len(wf_log) :
            (wf_log[k].payee.kind = "tranche" /\ wf_log[k].paid > 0) =>
                \A m \in 1..(k - 1) :
                    wf_log[m].payee.kind = "tranche" =>
                        /\ tranches[wf_log[m].payee.idx].deferred_interest = 0
                        /\ tranches[wf_log[m].payee.idx].interest_accrued = 0

\* C29's case: the A tranche was paid interest before the AAA tranche had its
\* pay_interest, and the AAA tranche then deferred interest
JuniorPaidInterestFirst ==
    /\ pc = "waterfall"
    /\ wf_run = "interest"
    /\ \E k \in 1..Len(wf_log) :
          /\ wf_log[k].payee.kind = "tranche"
          /\ wf_log[k].paid > 0
          /\ tranches[wf_log[k].payee.idx].rating = "A"
          /\ \E j \in 1..(Len(tranches) - 1) :
                /\ tranches[j].rating = "AAA"
                /\ tranches[j].deferred_interest > 0
                /\ \E m \in (k + 1)..Len(wf_log) :
                      wf_log[m].payee = [kind |-> "tranche", idx |-> j]

\* what the last simulate call added to the accrued interest of a tranche or a
\* fee, and to the balance of the incentive fee
AccruedBy(before, after) ==
    IF before.cls = "IncentiveFee" THEN after.balance - before.balance
    ELSE after.interest_accrued - before.interest_accrued

\* the accrual of a tranche or a fee over a number of days
AccrualOver(v, days) ==
    IF v.cls = "IncentiveFee" THEN AccrualOf(v.balance, days, v.interest_rate)
    ELSE IF v.cls = "Fee"
    THEN AccrualOf(v.balance, days, v.interest_rate)
         + (days * v.fixed_expense) \div DCF_DENOMINATOR
    ELSE AccrualOf(v.balance + v.deferred_interest, days, v.interest_rate)

\* the last simulate call, to target, stopped the accrual of a notified tranche or
\* fee at its call date
StoppedAtCallDate(before, after, target) ==
    before.clo_call_date < FarDate =>
        /\ after.last_simulation_date <= before.clo_call_date
        /\ before.last_simulation_date = before.clo_call_date =>
                AccruedBy(before, after) = 0
        /\ target > before.clo_call_date =>
                /\ after.last_simulation_date = before.clo_call_date
                /\ AccruedBy(before, after) =
                       AccrualOver(before, YearDays(before.last_simulation_date,
                                                    before.clo_call_date))

\* C30: after notify_of_liquidation(d), a simulate call whose target is beyond d
\* accrues only from the last accrual date up to d, and a simulate call made once
\* the tranche or the fee has accrued up to d adds 0 to its accrued interest (to
\* its balance, for the incentive fee).
AccrualStopsAtCallDate ==
    (probe.kind = "vehicles" /\ probe.call = "simulate") =>
        /\ \A i \in 1..Len(tranches) :
              StoppedAtCallDate(probe.before.tranches[i], tranches[i], probe.target)
        /\ \A i \in 1..Len(fees) :
              StoppedAtCallDate(probe.before.fees[i], fees[i], probe.target)
        /\ StoppedAtCallDate(probe.before.incentive_fee, incentive_fee, probe.target)

\* a tranche and the fees were simulated a second time past their call date: the
\* first call had accrued up to the call date, the second added nothing
SimulatedTwicePastCallDate ==
    /\ probe.kind = "vehicles"
    /\ probe.call = "simulate"
    /\ probe.calls = 3
    /\ probe.before.tranches[1].last_simulation_date = tranches[1].clo_call_date
    /\ probe.target > tranches[1].clo_call_date
    /\ probe.before.tranches[1].interest_accrued > 0
    /\ tranches[1].interest_accrued = probe.before.tranches[1].interest_accrued
    /\ probe.before.fees[1].interest_accrued > 0
    /\ fees[1].interest_accrued = probe.before.fees[1].interest_accrued
    /\ incentive_fee.balance = probe.before.incentive_fee.balance
    /\ incentive_fee.balance > incentive_fee.history[1].balance

----------------------------------------------------------------------------
(* The maturity of an asset *)

\* the maturity event of asset i fires in this call of Portfolio.simulate
MaturityFires(i) ==
    /\ assets[i].maturity < FarDate
    /\ assets'[i].maturity = FarDate

\* C31: the maturity event of an asset fires at most once over any sequence of
\* simulate calls: the first call whose target reaches the maturity pays the whole
\* remaining balance as scheduled principal, leaves the balance at 0 and no
\* interest accrued, and no later call pays scheduled principal again.
MaturityFiresOnce ==
    [][\A i \in 1..Len(assets) :
          Len(assets'[i].history) > Len(assets[i].history) =>
              LET snap == LastSnapshot(assets'[i])
              IN  /\ MaturityFires(i) <=> (/\ assets[i].maturity < FarDate
                                           /\ probe'.target >= assets[i].maturity)
                  /\ MaturityFires(i) =>
                        /\ assets'[i].balance = 0
                        /\ assets'[i].interest_accrued = 0
                        /\ snap.balance = 0
                        /\ assets'[i].principal_paid
                              >= assets[i].principal_paid + snap.scheduled_principal
                        /\ assets[i].settlement_date = FarDate =>
                              snap.scheduled_principal
                                = assets[i].balance - snap.unscheduled_principal
                                    - snap.defaulted_principal
                  /\ ~MaturityFires(i) =>
                        /\ snap.scheduled_principal = 0
                        /\ assets'[i].maturity = assets[i].maturity
                  /\ assets[i].maturity = FarDate =>
                        /\ assets'[i].balance = 0
                        /\ assets'[i].principal_paid = assets[i].principal_paid]_vars

\* an unsold asset repaid its balance as scheduled principal in an earlier call
\* and has been simulated again since
SimulatedAfterMaturity ==
    /\ probe.kind = "portfolio"
    /\ probe.call = "simulate"
    /\ \E i \in 1..Len(assets) :
          /\ probe.before[i].maturity = FarDate
          /\ probe.before[i].settlement_date = FarDate
          /\ LastSnapshot(probe.before[i]).scheduled_principal > 0
          /\ Len(assets[i].history) > Len(probe.before[i].history)
          /\ LastSnapshot(assets[i]).scheduled_principal = 0

----------------------------------------------------------------------------
(* The segments of one Asset.simulate call *)

\* what the call that took asset i from b to a, with one new snapshot, reports
\* in that snapshot: the principal paid and the balance retired over the call
SnapshotSumsSegments(b, a) ==
    LET snap == LastSnapshot(a)
    IN  /\ snap.unscheduled_principal + snap.recovered_principal
              + snap.scheduled_principal = a.principal_paid - b.principal_paid
        /\ snap.recovered_principal = (snap.defaulted_principal * b.recovery_rate) \div 100
        /\ b.settlement_date = FarDate =>
              snap.unscheduled_principal + snap.defaulted_principal
                + snap.scheduled_principal = b.balance - a.balance
        /\ snap.period_accrual >= 0

\* the dates in ds are in date order, each after the last simulated date of b and
\* before the target, and cover every payment and maturity date before the target
InterimDatesInOrder(b, a, ds, target) ==
    /\ \A k \in 1..Len(ds) : ds[k] >= b.last_simulation_date /\ ds[k] < target
    /\ \A k \in 1..(Len(ds) - 1) : ds[k] < ds[k + 1]
    /\ b.next_payment_date < target => \E k \in 1..Len(ds) : ds[k] = b.next_payment_date
    /\ b.maturity < target => \E k \in 1..Len(ds) : ds[k] = b.maturity
    /\ \A k \in 1..Len(ds) : ds[k] = b.maturity \/ ds[k] < a.next_payment_date
    /\ a.next_payment_date >= target
    /\ a.maturity >= target

----------------------------------------------------------------------------
(* The sale of an asset *)

\* the weekdays after from, up to and including to
BusinessDaysBetween(from, to) ==
    Cardinality({d \in (from + 1)..to : d % 7 < 5})

\* asset.liquidate took the asset from b to a: only the settlement date is
\* written, a weekday the right number of business days after the accrual date
LiquidateWritesSettlementDate(b, a, accrual_date) ==
    /\ a = [b EXCEPT !.settlement_date = a.settlement_date]
    /\ a.settlement_date % 7 < 5
    /\ BusinessDaysBetween(accrual_date, a.settlement_date)
          = IF b.asset_kind = "loan" THEN 10 ELSE 2

\* asset.simulate(target) took the asset from b to a: what the call prepaid (all
\* or nothing of the balance, by the prepayment rates of the model) and what it
\* sold, at the asset's price, add up to the snapshot's unscheduled principal;
\* the balance is sold in the call that reaches the settlement date and in no other
SoldOnSettlement(b, a, target) ==
    LET snap == LastSnapshot(a)
        settling == b.last_simulation_date < b.settlement_date
                       /\ target >= b.settlement_date
    IN  /\ \E prepaid \in {0, b.balance} :
              LET sold == b.balance - a.balance - prepaid
                             - snap.defaulted_principal - snap.scheduled_principal
              IN  /\ sold >= 0
                  /\ snap.unscheduled_principal = prepaid + (b.price * sold) \div 100
                  /\ ~settling => sold = 0
        /\ target >= b.settlement_date => a.balance = 0
        /\ a.principal_paid = b.principal_paid + snap.unscheduled_principal
                                + snap.scheduled_principal + snap.recovered_principal
        /\ a.last_simulation_date = Min(target, b.settlement_date)
        /\ b.last_simulation_date >= b.settlement_date => snap.period_accrual = 0
        /\ InterimDates(b, target, deal.curve) = <<>> =>
              snap.period_accrual
                = AccrualOf(b.balance,
                            YearDays(b.last_simulation_date, Min(target, b.settlement_date)),
                            b.interest_rate)

----------------------------------------------------------------------------
(* The first simulation cursor *)

\* the CLO has just been constructed: simulate has not begun its first step
JustConstructed ==
    /\ pc = "loop"
    /\ n_steps = 0

\* C34: after construction the simulation cursor is strictly after the report
\* date, at most the next payment date, and a whole number of months before the
\* next payment date, also when the report date itself is a whole number of
\* months before the next payment date.
FirstCursorAfterReportDate ==
    JustConstructed =>
        /\ simulate_until > deal.report_date
        /\ simulate_until <= deal.next_payment_date
        /\ \E k \in 0..12 : simulate_until = AddMonths(deal.next_payment_date, 0 - k)

\* a CLO reported exactly one month before its next payment date has been
\* constructed with its cursor on the report date
FirstCursorOnReportDate ==
    /\ JustConstructed
    /\ AddMonths(deal.next_payment_date, 0 - 1) = deal.report_date
    /\ simulate_until = deal.report_date

----------------------------------------------------------------------------
(* The monthly cursor and the payment dates *)

----------------------------------------------------------------------------
(* The accounts when CLO.simulate returns *)

----------------------------------------------------------------------------
(* Conservation of cash in a waterfall run *)

\* what the payees of the waterfalls have received so far: the net fees of the
\* management fees, the payments logged by the incentive fee, the interest and
\* principal paid to the tranches and the principal logged by the equity tranche
Receipts(ts, fs, inc) ==
    SumSeq([i \in 1..Len(fs) |-> fs[i].interest_paid])
      + LastSnapshot(inc).paid
      + SumSeq([i \in 1..Len(ts) |-> ts[i].interest_paid + ts[i].principal_paid])
      + LastSnapshot(ts[EquityIndex(ts)]).principal_paid

\* the account a waterfall run pays from
SourceAccount(run, interest, principal) ==
    IF run = "interest" THEN interest ELSE principal

\* C37: each waterfall run conserves cash: every entry's payee receives exactly what
\* leaves the source account (the fees net of their rebate, the incentive fee its
\* payment, the tranches their interest or principal, the equity tranche the
\* residual), so the balance before the run is the sum of the payments of the
\* run; nothing is paid that was not in the account and nothing disappears.
WaterfallConservesCash ==
    [][(pc = "waterfall" /\ wf_pos <= Len(waterfall) /\ pc' = "waterfall") =>
          LET before == SourceAccount(wf_run, interest_account, principal_account)
              after == SourceAccount(wf_run, interest_account', principal_account')
          IN  /\ after >= 0
              /\ after <= before
              /\ Receipts(tranches', fees', incentive_fee')
                    - Receipts(tranches, fees, incentive_fee) = before - after
              /\ SourceAccount(wf_run, principal_account', interest_account')
                    = SourceAccount(wf_run, principal_account, interest_account)
              /\ wf_log'[1].source_before
                    = after + SumSeq([k \in 1..Len(wf_log') |-> wf_log'[k].paid])
              /\ wf_pos' > Len(waterfall) => after = 0]_vars

\* an interest waterfall has run to its end paying a fee net of its rebate, a
\* debt tranche, the incentive fee and the equity tranche
InterestRunPaidEveryKind ==
    /\ pc = "waterfall"
    /\ wf_run = "interest"
    /\ wf_pos > Len(waterfall)
    /\ \A kind \in {"fee", "incentive", "tranche", "equity"} :
          \E k \in 1..Len(wf_log) : wf_log[k].payee.kind = kind /\ wf_log[k].paid > 0
    /\ \E i \in 1..Len(fees) : LastSnapshot(fees[i]).rebate > 0
    /\ wf_log[1].source_before = SumSeq([k \in 1..Len(wf_log) |-> wf_log[k].paid])

----------------------------------------------------------------------------
(* Reinvestment and liquidation *)

----------------------------------------------------------------------------
(* The balance in the equity tranche's snapshot *)

\* C39: after every EquityTranche.pay_principal call the balance recorded in the
\* equity tranche's latest snapshot equals the tranche's current balance and is
\* therefore never negative, also when the residual received exceeds the equity
\* balance that was left.
EquitySnapshotBalanceCurrent ==
    (probe.kind = "equity" /\ probe.call = "pay_principal") =>
        /\ LastSnapshot(tranches[1]).balance = tranches[1].balance
        /\ LastSnapshot(tranches[1]).balance >= 0

\* pay_principal has handed the equity tranche more than its balance: the
\* tranche's balance is floored at 0 and its snapshot's balance is below 0
EquitySnapshotBalanceNegative ==
    /\ probe.kind = "equity"
    /\ probe.call = "pay_principal"
    /\ probe.source_before > probe.balance_before
    /\ probe.paid = probe.source_before
    /\ tranches[1].balance = 0
    /\ LastSnapshot(tranches[1]).balance < 0

----------------------------------------------------------------------------
(* The price of a reinvestment *)

\* CLO.reinvest runs in this step: the cursor is inside the reinvestment period
\* and the principal account holds cash
ReinvestmentRuns ==
    /\ pc = "reinvest"
    /\ InReinvestmentPeriod
    /\ principal_account > 0

\* C40: whenever reinvestment runs the new asset is well defined and bought at
\* value: its price is above 0 and price * balance is the cash debited from the
\* principal account (to the rounding of the balance), also in a step where the
\* principal account is positive and the portfolio's total asset balance is 0.
ReinvestmentAtValue ==
    [][ReinvestmentRuns =>
          /\ pc' # "aborted"
          /\ Len(assets') = Len(assets) + 1
          /\ LET asset == assets'[Len(assets')]
                 cash == principal_account - principal_account'
             IN  /\ asset.price > 0
                 /\ cash > 0
                 /\ cash * 100 - asset.price * asset.balance \in 0..(asset.price - 1)]_vars

\* reinvestment ran on a portfolio whose whole balance was gone, at a
\* weighted-average price of 0, and raised after debiting the principal account
ReinvestmentRaisedOnEmptyPortfolio ==
    /\ pc = "aborted"
    /\ error = "ZeroDivisionError"
    /\ InReinvestmentPeriod
    /\ WeightedAveragePrice(assets) = 0
    /\ Len(assets) = Len(deal.collateral)
    /\ principal_account = 0
    /\ clo.principal_swept > 0
    /\ clo.principal_reinvested = 0

====
